---- MODULE Spec2Model ----
(***************************************************************************)
(* Model of the outbound caller agent (src/agent.py), its calendar gateway *)
(* (src/google_calendar.py) and the result sink (src/update_call_results). *)
(*                                                                         *)
(* Time is counted in seconds since Monday 2025-12-29 00:00:00 UTC, so     *)
(* that (t \div 86400) % 7 is Python's weekday() (Monday = 0) and the days *)
(* of January 2026 are the day indices 3..33.                              *)
(***************************************************************************)
EXTENDS Integers, Sequences, FiniteSets, TLC

VARIABLES
    now,        \* the wall clock, seconds UTC
    sys_tz,     \* UTC offset of the host's local zone (datetime.now() is naive local)
    \* --- OutboundCaller
    transfer_to,                  \* dial_info["transfer_to"]: None when the key is absent
    call_start_time,
    call_end_time,
    appointment_scheduled,
    appointment_time_scheduled,
    appointment_email,
    \* --- the room, the session, the calendar and the sheet
    participant_in_room,          \* the callee is in ctx.room.remote_participants
    room_deleted,
    session_closed,
    calendar,                     \* the events of the primary calendar, in creation order
    sheet,                        \* the data dicts handed to update_from_webhook_data,
                                  \* each with what the call came to (success)
    sheets_api,                   \* what update_from_webhook_data comes to on this host
    \* --- entrypoint and its background tasks
    entry_pc,
    monitor_pc,
    monitor_cancelled,
    waited,
    disc_pc,                      \* the send_transcript_on_end task of the disconnect event
    \* --- function tools, one coroutine per tool
    tool_calls,
    end_pc,
    vm_pc,
    tr_pc,
    tr_result,
    sm_pc,
    sm_args,
    sm_result,
    ca_pc,
    ca_args,
    ca_result,
    executor,                     \* GoogleCalendar._executor: queued jobs, one worker
    exec_done,                    \* results of finished jobs, by tool
    \* --- GoogleCalendar's credentials
    authenticated,                \* self._authenticated
    creds,                        \* self.creds: "none", "valid" or "expired"
    token_json,                   \* the file token.json: "absent", "valid", "expired", "corrupt"
    \* --- resolver harness
    r_pc,       \* "idle" or "applied"
    r_text,     \* the dateTime utterance
    r_check,    \* result of checkAvailability's parsing
    r_book,     \* result of schedule_meeting's parsing
    \* --- the sheet of contacts and the dispatchers (dispatch_calls.py,
    \* --- dispatch_calls_parallel.py)
    rows,           \* the sheet below its header: row number -> its cells
    d_pc,           \* "idle", or where the running dispatcher is
    pending_rows,   \* what read_pending_rows returned to this run
    idx,            \* process_calls: the loop index (1-based)
    polls,          \* wait_for_call_completion: sleeps so far
    tasks,          \* process_calls_parallel: where each dispatch_with_limit task is
    active_calls,   \* dispatch_calls_parallel.active_calls: its keys
    checks,         \* monitor_call_status: check_count of the monitor of a row
    calls,          \* the agent jobs in progress: their metadata, and the row they came from
    dispatches      \* history: how many jobs were created for a row

rvars == <<r_pc, r_text, r_check, r_book>>
agent_vars == <<transfer_to, call_start_time, call_end_time, appointment_scheduled,
                appointment_time_scheduled, appointment_email>>
appointment_vars == <<appointment_scheduled, appointment_time_scheduled, appointment_email>>
env_vars == <<participant_in_room, room_deleted, session_closed, calendar, sheet>>
task_vars == <<entry_pc, monitor_pc, monitor_cancelled, waited, disc_pc>>
tool_vars == <<tool_calls, end_pc, vm_pc, tr_pc, tr_result, sm_pc, sm_args, sm_result,
               ca_pc, ca_args, ca_result, executor, exec_done>>
auth_vars == <<authenticated, creds, token_json>>
cvars == <<agent_vars, env_vars, task_vars, tool_vars>>
dvars == <<rows, d_pc, pending_rows, idx, polls, tasks, active_calls, checks, calls,
           dispatches>>
vars == <<now, sys_tz, sheets_api, auth_vars, cvars, rvars, dvars>>

\* ---------------------------------------------------------------- options
None == <<>>
Some(x) == <<x>>
IsSome(o) == o /= <<>>
Get(o) == o[1]

\* ---------------------------------------------------------------- strings
CharAt(s, i) == IF i >= 1 /\ i <= Len(s) THEN SubSeq(s, i, i) ELSE ""

\* Python: sub in s
Contains(s, sub) ==
    \E i \in 1..(Len(s) - Len(sub) + 1) : SubSeq(s, i, i + Len(sub) - 1) = sub

\* Python: s.endswith(suf)
EndsWith(s, suf) ==
    Len(s) >= Len(suf) /\ SubSeq(s, Len(s) - Len(suf) + 1, Len(s)) = suf

\* Python: s[-n:]
LastChars(s, n) == IF Len(s) <= n THEN s ELSE SubSeq(s, Len(s) - n + 1, Len(s))

\* Python: s.replace(old, new), left to right, non-overlapping (old non-empty)
RECURSIVE Replace(_, _, _)
Replace(s, old, new) ==
    IF Len(s) < Len(old) THEN s
    ELSE IF SubSeq(s, 1, Len(old)) = old
         THEN new \o Replace(SubSeq(s, Len(old) + 1, Len(s)), old, new)
         ELSE SubSeq(s, 1, 1) \o Replace(SubSeq(s, 2, Len(s)), old, new)

UpperChars == "ABCDEFGHIJKLMNOPQRSTUVWXYZ"
LowerChars == "abcdefghijklmnopqrstuvwxyz"

LowerChar(c) ==
    IF \E k \in 1..26 : SubSeq(UpperChars, k, k) = c
    THEN LET k == CHOOSE k \in 1..26 : SubSeq(UpperChars, k, k) = c
         IN  SubSeq(LowerChars, k, k)
    ELSE c

\* Python: s.lower(), character by character from position i on
RECURSIVE LowerFrom(_, _)
LowerFrom(s, i) ==
    IF i > Len(s) THEN "" ELSE LowerChar(SubSeq(s, i, i)) \o LowerFrom(s, i + 1)

\* Python: s.lower()
Lower(s) == LowerFrom(s, 1)

UpperChar(c) ==
    IF \E k \in 1..26 : SubSeq(LowerChars, k, k) = c
    THEN LET k == CHOOSE k \in 1..26 : SubSeq(LowerChars, k, k) = c
         IN  SubSeq(UpperChars, k, k)
    ELSE c

\* Python: s.capitalize()
Capitalize(s) ==
    IF s = "" THEN "" ELSE UpperChar(SubSeq(s, 1, 1)) \o LowerFrom(s, 2)

IsSpace(c) == c = " "

\* Python: s.strip()
Strip(s) ==
    IF \A i \in 1..Len(s) : IsSpace(CharAt(s, i)) THEN ""
    ELSE LET a == CHOOSE i \in 1..Len(s) :
                    ~IsSpace(CharAt(s, i)) /\ \A j \in 1..(i - 1) : IsSpace(CharAt(s, j))
             b == CHOOSE i \in 1..Len(s) :
                    ~IsSpace(CharAt(s, i)) /\ \A j \in (i + 1)..Len(s) : IsSpace(CharAt(s, j))
         IN  SubSeq(s, a, b)

Digits == "0123456789"
IsDigit(c) == \E k \in 1..10 : SubSeq(Digits, k, k) = c
DigitVal(c) == (CHOOSE k \in 1..10 : SubSeq(Digits, k, k) = c) - 1
DigitsAt(s, i, n) == \A k \in 0..(n - 1) : IsDigit(CharAt(s, i + k))

\* Python: int(s[i:i+n]) for n in {1, 2}
NumAt(s, i, n) ==
    IF n = 1 THEN DigitVal(CharAt(s, i))
    ELSE 10 * DigitVal(CharAt(s, i)) + DigitVal(CharAt(s, i + 1))

\* ---------------------------------------------------------------- the sheet of contacts
\* Python: str(n) of an int
RECURSIVE str(_)
str(n) ==
    IF n < 0 THEN "-" \o str(0 - n)
    ELSE IF n < 10 THEN SubSeq(Digits, n + 1, n + 1)
    ELSE str(n \div 10) \o SubSeq(Digits, (n % 10) + 1, (n % 10) + 1)

\* the value of a string of digits
RECURSIVE DigitsVal(_)
DigitsVal(s) ==
    IF s = "" THEN 0
    ELSE 10 * DigitsVal(SubSeq(s, 1, Len(s) - 1)) + DigitVal(CharAt(s, Len(s)))

\* a JSON value as it travels in the job metadata: its type and its text
JsonNull == [type |-> "null", text |-> ""]
JsonStr(s) == [type |-> "str", text |-> s]
JsonInt(n) == [type |-> "int", text |-> str(n)]

\* Python: int(s) of a str: blanks around it and one sign are allowed, then digits
\* only; ok is FALSE for ValueError
int_of_str(s) ==
    LET t == Strip(s)
        signed == t /= "" /\ CharAt(t, 1) \in {"-", "+"}
        body == IF signed THEN SubSeq(t, 2, Len(t)) ELSE t
    IN  IF body /= "" /\ DigitsAt(body, 1, Len(body))
        THEN [ok |-> TRUE,
              value |-> IF signed /\ CharAt(t, 1) = "-" THEN 0 - DigitsVal(body)
                        ELSE DigitsVal(body)]
        ELSE [ok |-> FALSE, value |-> 0]

\* Python: int(v); ok is FALSE for ValueError and for TypeError (int(None))
int(v) ==
    IF v.type = "null" THEN [ok |-> FALSE, value |-> 0]
    ELSE int_of_str(v.text)

\* Python: the truth value of v in "if v:"
Truthy(v) ==
    \/ v.type = "str" /\ v.text /= ""
    \/ v.type = "int" /\ int_of_str(v.text).value /= 0

\* the data rows of the sheet: the header is row 1
NRows == 2
RowNumbers == 2..(NRows + 1)

\* the cell "Phone Number" of a row as it was typed: two contacts share a number
SheetPhone(n) == IF n % 2 = 0 THEN "+1555" ELSE "1 556"

\* a sheet of contacts nobody has called yet, and no dispatcher running
DispatchInit ==
    /\ rows = [n \in RowNumbers |->
                  [phone |-> SheetPhone(n), status |-> "Pending", retry |-> ""]]
    /\ d_pc = "idle"
    /\ pending_rows = <<>>
    /\ idx = 0
    /\ polls = 0
    /\ tasks = <<>>
    /\ active_calls = {}
    /\ checks = [n \in RowNumbers |-> 0]
    /\ calls = {}
    /\ dispatches = [n \in RowNumbers |-> 0]

\* ---------------------------------------------------------------- re.search
\* The pattern (\d{1,2}):?(\d{2})?\s*(am|pm): the ways its optional parts can be
\* taken, in the order Python's backtracking tries them (greedy first).
\* <<digits of group 1, colon taken, group 2 taken>>
TimePatternChoices ==
    << <<2, TRUE, TRUE>>, <<2, TRUE, FALSE>>, <<2, FALSE, TRUE>>, <<2, FALSE, FALSE>>,
       <<1, TRUE, TRUE>>, <<1, TRUE, FALSE>>, <<1, FALSE, TRUE>>, <<1, FALSE, FALSE>> >>

\* \s* is greedy and (am|pm) cannot start with a space: all the spaces are taken
SkipSpaces(s, p) ==
    CHOOSE j \in p..(Len(s) + 1) :
        (\A k \in p..(j - 1) : IsSpace(CharAt(s, k))) /\ ~IsSpace(CharAt(s, j))

AmPmAt(s, p) == p + 1 <= Len(s) /\ SubSeq(s, p, p + 1) \in {"am", "pm"}

ChoiceGroup2At(i, c) == i + c[1] + (IF c[2] THEN 1 ELSE 0)
ChoiceAmPmAt(s, i, c) == SkipSpaces(s, ChoiceGroup2At(i, c) + (IF c[3] THEN 2 ELSE 0))

ChoiceMatches(s, i, c) ==
    /\ DigitsAt(s, i, c[1])
    /\ c[2] => CharAt(s, i + c[1]) = ":"
    /\ c[3] => DigitsAt(s, ChoiceGroup2At(i, c), 2)
    /\ AmPmAt(s, ChoiceAmPmAt(s, i, c))

MatchesAt(s, i) == \E k \in 1..Len(TimePatternChoices) : ChoiceMatches(s, i, TimePatternChoices[k])

NoMatch == [found |-> FALSE, hour |-> 0, minute |-> 0, am_pm |-> ""]

\* where the leftmost match starts
MatchStart(s) ==
    CHOOSE i \in 1..Len(s) : MatchesAt(s, i) /\ \A j \in 1..(i - 1) : ~MatchesAt(s, j)

\* the first way the pattern matches at i
MatchChoice(s, i) ==
    TimePatternChoices[CHOOSE k \in 1..Len(TimePatternChoices) :
        /\ ChoiceMatches(s, i, TimePatternChoices[k])
        /\ \A l \in 1..(k - 1) : ~ChoiceMatches(s, i, TimePatternChoices[l])]

\* the groups of the match at i taken the way c
MatchGroups(s, i, c, a) ==
    [found  |-> TRUE,
     hour   |-> NumAt(s, i, c[1]),
     minute |-> IF c[3] THEN NumAt(s, ChoiceGroup2At(i, c), 2) ELSE 0,
     am_pm  |-> SubSeq(s, a, a + 1)]

MatchTaken(s, i, c) == MatchGroups(s, i, c, ChoiceAmPmAt(s, i, c))
MatchAt(s, i) == MatchTaken(s, i, MatchChoice(s, i))

\* re.search(r'(\d{1,2}):?(\d{2})?\s*(am|pm)', s): the leftmost match, with
\* hour = int(group(1)), minute = int(group(2)) if group(2) else 0, am_pm = group(3)
time_match(s) ==
    IF \E i \in 1..Len(s) : MatchesAt(s, i) THEN MatchAt(s, MatchStart(s)) ELSE NoMatch

\* "Convert to 24-hour format"
To24Hour(hour, am_pm) ==
    IF am_pm = "pm" /\ hour /= 12 THEN hour + 12
    ELSE IF am_pm = "am" /\ hour = 12 THEN 0
    ELSE hour

\* ---------------------------------------------------------------- datetime
DAY == 86400
HOUR == 3600
MINUTE == 60
PST == -8 * HOUR          \* datetime.timezone(timedelta(hours=-8))
UTC == 0

\* a datetime: its wall-clock reading, and its utcoffset when it is aware
Naive(w) == [wall |-> w, aware |-> FALSE, off |-> 0]
Aware(w, off) == [wall |-> w, aware |-> TRUE, off |-> off]

\* datetime.datetime.now(): naive, in the host's local zone
NowLocal(t, tz) == Naive(t + tz)
\* datetime.datetime.now(tz)
NowIn(t, off) == Aware(t + off, off)

Plus(dt, seconds) == [dt EXCEPT !.wall = @ + seconds]
\* dt.replace(hour=h, minute=m, second=0, microsecond=0); ValueError unless ValidHM
ValidHM(h, m) == h \in 0..23 /\ m \in 0..59
ReplaceHM(dt, h, m) == [dt EXCEPT !.wall = (@ \div DAY) * DAY + h * HOUR + m * MINUTE]
\* dt.weekday(), Monday = 0
Weekday(dt) == (dt.wall \div DAY) % 7
\* a < b between two naive or two aware datetimes
Before(a, b) == (a.wall - a.off) < (b.wall - b.off)
\* dt.astimezone(tz) of an aware datetime
AsTimezone(dt, off) == Aware(dt.wall - dt.off + off, off)
\* dt.replace(tzinfo=tz)
ReplaceTz(dt, off) == Aware(dt.wall, off)
\* the absolute instant of an aware datetime, seconds UTC
Instant(dt) == dt.wall - dt.off

\* ---------------------------------------------------------------- fromisoformat
\* datetime.fromisoformat for the literals of January 2026:
\*   2026-01-DD, 2026-01-DD?HH:MM, 2026-01-DD?HH:MM:SS, the last two with an
\*   optional +HH:MM / -HH:MM offset; any other string here is a ValueError.
IsoError == [ok |-> FALSE, dt |-> Naive(0)]

IsoDateOk(s) ==
    /\ Len(s) >= 10
    /\ SubSeq(s, 1, 8) = "2026-01-"
    /\ DigitsAt(s, 9, 2)
    /\ NumAt(s, 9, 2) \in 1..31

\* 2026-01-01 is a Thursday: day index 3
IsoDay(s) == NumAt(s, 9, 2) + 2

IsoClockOk(s, withSeconds) ==
    /\ DigitsAt(s, 12, 2) /\ CharAt(s, 14) = ":" /\ DigitsAt(s, 15, 2)
    /\ NumAt(s, 12, 2) \in 0..23 /\ NumAt(s, 15, 2) \in 0..59
    /\ withSeconds => (CharAt(s, 17) = ":" /\ DigitsAt(s, 18, 2) /\ NumAt(s, 18, 2) \in 0..59)

IsoWall(s, withSeconds) ==
    IsoDay(s) * DAY + NumAt(s, 12, 2) * HOUR + NumAt(s, 15, 2) * MINUTE
        + (IF withSeconds THEN NumAt(s, 18, 2) ELSE 0)

IsoOffsetOk(s, p) ==
    /\ CharAt(s, p) \in {"+", "-"}
    /\ DigitsAt(s, p + 1, 2) /\ CharAt(s, p + 3) = ":" /\ DigitsAt(s, p + 4, 2)
    /\ NumAt(s, p + 1, 2) \in 0..23 /\ NumAt(s, p + 4, 2) \in 0..59

IsoOffset(s, p) ==
    (IF CharAt(s, p) = "-" THEN -1 ELSE 1)
        * (NumAt(s, p + 1, 2) * HOUR + NumAt(s, p + 4, 2) * MINUTE)

fromisoformat(s) ==
    IF ~IsoDateOk(s) THEN IsoError
    ELSE IF Len(s) = 10 THEN [ok |-> TRUE, dt |-> Naive(IsoDay(s) * DAY)]
    ELSE IF Len(s) = 16 /\ IsoClockOk(s, FALSE)
         THEN [ok |-> TRUE, dt |-> Naive(IsoWall(s, FALSE))]
    ELSE IF Len(s) = 19 /\ IsoClockOk(s, TRUE)
         THEN [ok |-> TRUE, dt |-> Naive(IsoWall(s, TRUE))]
    ELSE IF Len(s) = 22 /\ IsoClockOk(s, FALSE) /\ IsoOffsetOk(s, 17)
         THEN [ok |-> TRUE, dt |-> Aware(IsoWall(s, FALSE), IsoOffset(s, 17))]
    ELSE IF Len(s) = 25 /\ IsoClockOk(s, TRUE) /\ IsoOffsetOk(s, 20)
         THEN [ok |-> TRUE, dt |-> Aware(IsoWall(s, TRUE), IsoOffset(s, 20))]
    ELSE IsoError

\* ---------------------------------------------------------------- resolving
day_names == <<"monday", "tuesday", "wednesday", "thursday", "friday", "saturday", "sunday">>

AnyDayIn(time_lower) == \E i \in 1..7 : Contains(time_lower, day_names[i])

\* for i, day in enumerate(day_names): if day in time_lower: target_day = i; break
target_day(time_lower) ==
    (CHOOSE i \in 1..7 :
        /\ Contains(time_lower, day_names[i])
        /\ \A j \in 1..(i - 1) : ~Contains(time_lower, day_names[j])) - 1

\* what the parsing of a dateTime utterance ends in
Moment(t) == [kind |-> "moment", utc |-> t, period |-> ""]
Vague(p) == [kind |-> "vague", utc |-> 0, period |-> p]
Raised == [kind |-> "raise", utc |-> 0, period |-> ""]

\* checkAvailability, the clock-time branch: the naive datetime dt
check_clock_dt(nw, time_lower, hour, minute) ==
    IF Contains(time_lower, "tomorrow")
    THEN ReplaceHM(Plus(nw, DAY), hour, minute)
    ELSE IF AnyDayIn(time_lower)
    THEN LET days_ahead == (target_day(time_lower) - Weekday(nw)) % 7
             today_time == ReplaceHM(nw, hour, minute)
         IN  IF days_ahead = 0 /\ Before(today_time, nw)
             THEN ReplaceHM(Plus(nw, 7 * DAY), hour, minute)
             ELSE ReplaceHM(Plus(nw, days_ahead * DAY), hour, minute)
    ELSE LET today_time == ReplaceHM(nw, hour, minute)
         IN  IF Before(today_time, nw)
             THEN ReplaceHM(Plus(nw, DAY), hour, minute)
             ELSE today_time

\* checkAvailability's default: tomorrow at 2pm
check_default_dt(nw) == ReplaceHM(Plus(nw, DAY), 14, 0)

\* checkAvailability, the ISO branch
check_iso_dt(iso, nw) == IF iso.ok THEN iso.dt ELSE check_default_dt(nw)   \* ValueError, caught

\* checkAvailability, "if time_match:"
check_match_dt(nw, time_lower, hour, minute) ==
    IF ValidHM(hour, minute)
    THEN check_clock_dt(nw, time_lower, hour, minute)
    ELSE check_default_dt(nw)                                 \* ValueError, caught

\* checkAvailability, "Try to parse specific times", m the regex match
check_text_dt(dateTime, nw, time_lower, m) ==
    IF m.found
    THEN check_match_dt(nw, time_lower, To24Hour(m.hour, m.am_pm), m.minute)
    ELSE IF Contains(dateTime, "T") \/ Contains(dateTime, "-")
    THEN check_iso_dt(fromisoformat(Replace(dateTime, "Z", "+00:00")), nw)
    ELSE check_default_dt(nw)

\* the parsing of checkAvailability's try block: dt before the UTC step
check_lower_dt(dateTime, nw, time_lower) ==
    check_text_dt(dateTime, nw, time_lower, time_match(time_lower))

check_parse_dt(dateTime, nw) == check_lower_dt(dateTime, nw, Strip(Lower(dateTime)))

\* checkAvailability, "Ensure timezone is UTC for Google Calendar API"
check_to_utc(dt) == IF ~dt.aware THEN ReplaceTz(dt, UTC) ELSE AsTimezone(dt, UTC)

\* checkAvailability's test of the vague periods, before any time is parsed
check_vague(dateTime, nw, time_lower) ==
    IF Contains(time_lower, "morning") THEN Vague("morning")
    ELSE IF Contains(time_lower, "afternoon") THEN Vague("afternoon")
    ELSE IF Contains(time_lower, "evening") THEN Vague("evening")
    ELSE Moment(Instant(check_to_utc(check_parse_dt(dateTime, nw))))

\* checkAvailability up to the calendar request: a vague period, or the slot start
checkAvailability_resolve(dateTime, t, tz) ==
    check_vague(dateTime, NowLocal(t, tz), Strip(Lower(dateTime)))

\* schedule_meeting, the ISO branch: start_time (None when not taken or ValueError)
book_iso_start(dateTime) ==
    IF Contains(dateTime, "T")
       /\ (Contains(dateTime, "+") \/ Contains(LastChars(dateTime, 6), "-")
           \/ Contains(dateTime, "Z"))
    THEN LET iso == IF EndsWith(dateTime, "Z")
                    THEN fromisoformat(Replace(dateTime, "Z", "+00:00"))
                    ELSE fromisoformat(dateTime)
         IN  IF ~iso.ok THEN None
             ELSE IF iso.dt.aware THEN Some(AsTimezone(iso.dt, PST))
             ELSE Some(ReplaceTz(iso.dt, PST))
    ELSE None

\* schedule_meeting, the clock-time branch: start_time in PST
book_clock_start(now_pst, time_lower, hour, minute) ==
    IF Contains(time_lower, "tomorrow")
    THEN ReplaceHM(Plus(now_pst, DAY), hour, minute)
    ELSE IF AnyDayIn(time_lower)
    THEN LET days_ahead == (target_day(time_lower) - Weekday(now_pst)) % 7
             today_time_pst == ReplaceHM(now_pst, hour, minute)
         IN  IF days_ahead = 0 /\ Before(today_time_pst, now_pst)
             THEN ReplaceHM(Plus(now_pst, 7 * DAY), hour, minute)
             ELSE ReplaceHM(Plus(now_pst, days_ahead * DAY), hour, minute)
    ELSE LET today_time_pst == ReplaceHM(now_pst, hour, minute)
         IN  IF Before(today_time_pst, now_pst)
             THEN ReplaceHM(Plus(now_pst, DAY), hour, minute)
             ELSE today_time_pst

\* schedule_meeting, "if time_match:": replace() raises the ValueError that nothing
\* catches, or gives the start_time
book_match_start(now_pst, time_lower, hour, minute) ==
    IF ValidHM(hour, minute)
    THEN Moment(Instant(AsTimezone(book_clock_start(now_pst, time_lower, hour, minute), UTC)))
    ELSE Raised

\* schedule_meeting, "if not start_time:": the clock time, tomorrow 2pm, or in an hour
book_text_start(now_pst, time_lower, m) ==
    IF m.found
    THEN book_match_start(now_pst, time_lower, To24Hour(m.hour, m.am_pm), m.minute)
    ELSE IF Contains(time_lower, "tomorrow")
    THEN Moment(Instant(AsTimezone(ReplaceHM(Plus(now_pst, DAY), 14, 0), UTC)))
    ELSE Moment(Instant(AsTimezone(Plus(now_pst, HOUR), UTC)))

\* schedule_meeting after the ISO branch gave iso
book_start(now_pst, iso, time_lower) ==
    IF IsSome(iso)
    THEN Moment(Instant(AsTimezone(Get(iso), UTC)))
    ELSE book_text_start(now_pst, time_lower, time_match(time_lower))

\* schedule_meeting up to the calendar request: the start_time in UTC, or the
\* ValueError of replace()
schedule_meeting_resolve(dateTime, t) ==
    book_start(NowIn(t, PST), book_iso_start(dateTime), Strip(Lower(dateTime)))

\* ---------------------------------------------------------------- email
\* a parsing that only trims the email and lowers its case
parse_email_trimmed(email) == Strip(Lower(email))

\* schedule_meeting, "Parse email": the address the invite is sent to
parse_email(email) ==
    LET email_lower == Strip(Lower(email))
    IN  IF Contains(email_lower, " at ") \/ Contains(email_lower, " dot ")
           \/ Contains(email_lower, " at gmail dot ")
        THEN LET p1 == Replace(Replace(Replace(email_lower, " at ", "@"), " dot ", "."), " ", "")
                 p2 == Replace(p1, "atgmail", "@gmail")
                 p3 == IF Contains(p2, "dotcom") \/ Contains(email_lower, "dot com")
                       THEN Replace(p2, "dotcom", ".com")
                       ELSE IF Contains(p2, "dotco")
                       THEN IF Contains(p2, "gmail")
                            THEN LET q == Replace(p2, "dotco", ".com")
                                 IN  IF Contains(q, "gmail.co") /\ ~Contains(q, "gmail.com")
                                     THEN Replace(q, "gmail.co", "gmail.com")
                                     ELSE q
                            ELSE Replace(p2, "dotco", ".co")
                       ELSE p2
             IN  Replace(Replace(p3, "dotnet", ".net"), "dotorg", ".org")
        ELSE Lower(Replace(email, " ", ""))

\* the zones the host may run in
SysZones == {PST, UTC}

\* day d of January 2026 at h:m:s UTC
Jan2026(d, h, m, sec) == (d + 2) * DAY + h * HOUR + m * MINUTE + sec

\* ---------------------------------------------------------------- the call
NoResult == [kind |-> "none"]
JobNone == [status |-> "none", value |-> 0]
NoJobs == [sm |-> JobNone, ca |-> JobNone]
NoArgs == [email |-> "", dateTime |-> "", to |-> "", start_time |-> 0]

\* OutboundCaller.__init__ and the job before create_sip_participant
CallStart(cfg, cal) ==
    /\ transfer_to = cfg
    /\ call_start_time = None
    /\ call_end_time = None
    /\ appointment_scheduled = FALSE
    /\ appointment_time_scheduled = None
    /\ appointment_email = None
    /\ participant_in_room = FALSE
    /\ room_deleted = FALSE
    /\ session_closed = FALSE
    /\ calendar = cal
    /\ sheet = <<>>
    /\ entry_pc = "dialing"
    /\ monitor_pc = "none"
    /\ monitor_cancelled = FALSE
    /\ waited = 0
    /\ disc_pc = "none"
    /\ tool_calls = 0
    /\ end_pc = "idle"
    /\ vm_pc = "idle"
    /\ tr_pc = "idle"
    /\ tr_result = NoResult
    /\ sm_pc = "idle"
    /\ sm_args = NoArgs
    /\ sm_result = NoResult
    /\ ca_pc = "idle"
    /\ ca_args = NoArgs
    /\ ca_result = NoResult
    /\ executor = <<>>
    /\ exec_done = NoJobs
    /\ authenticated = FALSE
    /\ creds = "none"

\* ---------------------------------------------------------------- rendering
\* what strftime's %A, %B %d %Y, %I, %M and %p read off a datetime
Hour12(dt) ==
    LET h == (dt.wall % DAY) \div HOUR
    IN  IF h % 12 = 0 THEN 12 ELSE h % 12
MinuteOf(dt) == (dt.wall % HOUR) \div MINUTE
AmPm(dt) == IF (dt.wall % DAY) \div HOUR < 12 THEN "AM" ELSE "PM"

\* strftime("%A, %B %d, %Y at %I:%M %p") and strftime("%I:%M %p on %A, %B %d, %Y"):
\* the same fields in another order
FormatDateTime(dt) ==
    [A |-> Weekday(dt), date |-> dt.wall \div DAY, I |-> Hour12(dt), M |-> MinuteOf(dt),
     p |-> AmPm(dt)]

\* ---------------------------------------------------------------- the result sink
\* send_call_results_to_sheets: the data dict (the transcript left out), built at
\* time t when self.call_end_time is end_time
call_results(call_status, end_time, t) ==
    [call_status |-> call_status,
     call_duration_seconds |->
        IF IsSome(call_start_time) /\ IsSome(end_time)
        THEN Get(end_time) - Get(call_start_time)
        ELSE IF IsSome(call_start_time) THEN t - Get(call_start_time)
        ELSE 0,
     appointment_scheduled |-> appointment_scheduled,
     appointment_time |->
        IF IsSome(appointment_time_scheduled)
        THEN Some(FormatDateTime(AsTimezone(Aware(Get(appointment_time_scheduled), UTC), PST)))
        ELSE None,
     appointment_email |-> appointment_email]

\* update_from_webhook_data(data): True when the row was written, False when it was
\* not (no row found, or an exception of the service caught inside), or an exception
SheetsOutcomes == {"ok", "false", "raises"}

\* "try: success = update_from_webhook_data(data) ... except Exception": the dict with
\* what the try block came to
delivered(data, outcome) ==
    [f \in DOMAIN data \cup {"success"} |->
        IF f = "success"
        THEN (IF outcome = "ok" THEN "True" ELSE IF outcome = "false" THEN "False"
              ELSE "raised")
        ELSE data[f]]

\* send_call_results_to_sheets(call_status): it has no suspension point, the dict
\* reaches update_from_webhook_data before anything else runs
send_call_results_to_sheets(call_status, end_time, t) ==
    sheet' = Append(sheet, delivered(call_results(call_status, end_time, t), sheets_api))

\* a hangup that notes the end of the call and reports nothing
hangup_unreported(call_status, send_results) ==
    /\ call_end_time' = IF IsSome(call_end_time) THEN call_end_time ELSE Some(now)
    /\ UNCHANGED sheet

\* hangup, up to its await of delete_room
hangup(call_status, send_results) ==
    IF send_results /\ ~IsSome(call_end_time)
    THEN /\ call_end_time' = Some(now)
         /\ send_call_results_to_sheets(call_status, Some(now), now)
    ELSE IF ~IsSome(call_end_time)
    THEN /\ call_end_time' = Some(now)
         /\ UNCHANGED sheet
    ELSE UNCHANGED <<call_end_time, sheet>>

\* a send_transcript_on_end that reports every call as completed
send_transcript_as_completed ==
    IF ~IsSome(call_end_time)
    THEN /\ send_call_results_to_sheets("completed", call_end_time, now)
         /\ call_end_time' = Some(now)
    ELSE UNCHANGED <<call_end_time, sheet>>

\* send_transcript_on_end
send_transcript_on_end ==
    IF ~IsSome(call_end_time)
    THEN /\ send_call_results_to_sheets(
                IF appointment_scheduled THEN "completed" ELSE "no_answer",
                call_end_time, now)
         /\ call_end_time' = Some(now)
    ELSE UNCHANGED <<call_end_time, sheet>>

\* a monitor that ends without sending anything
monitor_ends_silently(t) == UNCHANGED <<call_end_time, sheet>>

\* monitor_and_send_transcript after its loop, at time t: "Send transcript"
monitor_send_transcript(t) ==
    IF ~IsSome(call_end_time)
    THEN /\ send_call_results_to_sheets(
                IF appointment_scheduled THEN "completed" ELSE "no_answer",
                call_end_time, t)
         /\ call_end_time' = Some(t)
    ELSE UNCHANGED <<call_end_time, sheet>>

\* ---------------------------------------------------------------- entrypoint
max_wait == 2          \* 600 in the source, one per second of sleep

Connected == IsSome(call_start_time)

\* create_sip_participant returns: the callee answered and joined; call_start_time
\* is set, the disconnect handler subscribed and the monitor task created
DialAnswered ==
    /\ entry_pc = "dialing"
    /\ entry_pc' = "greeting"
    /\ call_start_time' = Some(now)
    /\ participant_in_room' = TRUE
    /\ monitor_pc' = "sleeping"
    /\ UNCHANGED <<now, sys_tz, dvars, sheets_api, auth_vars, rvars, transfer_to, call_end_time, appointment_vars,
                   room_deleted, session_closed, calendar, sheet, monitor_cancelled,
                   waited, disc_pc, tool_vars>>

\* create_sip_participant raises TwirpError: ctx.shutdown()
DialFailed ==
    /\ entry_pc = "dialing"
    /\ entry_pc' = "shutdown"
    /\ UNCHANGED <<now, sys_tz, dvars, sheets_api, auth_vars, rvars, agent_vars, env_vars, monitor_pc, monitor_cancelled,
                   waited, disc_pc, tool_vars>>

\* the greeting delay and generate_reply return
GreetingDone ==
    /\ entry_pc = "greeting"
    /\ ~session_closed
    /\ entry_pc' = "await_monitor"
    /\ UNCHANGED <<now, sys_tz, dvars, sheets_api, auth_vars, rvars, agent_vars, env_vars, monitor_pc, monitor_cancelled,
                   waited, disc_pc, tool_vars>>

\* generate_reply raises: monitor_task.cancel(), await send_transcript_on_end(),
\* then return (the session is closing) or raise (any other error)
GreetingFailed ==
    /\ entry_pc = "greeting"
    /\ entry_pc' = IF session_closed THEN "done" ELSE "raised"
    /\ monitor_cancelled' = (monitor_pc = "sleeping")
    /\ send_transcript_on_end
    /\ UNCHANGED <<now, sys_tz, dvars, sheets_api, auth_vars, rvars, transfer_to, call_start_time, appointment_vars,
                   participant_in_room, room_deleted, session_closed, calendar,
                   monitor_pc, waited, disc_pc, tool_vars>>

\* await monitor_task
MonitorAwaited ==
    /\ entry_pc = "await_monitor"
    /\ monitor_pc = "done"
    /\ entry_pc' = "done"
    /\ UNCHANGED <<now, sys_tz, dvars, sheets_api, auth_vars, rvars, agent_vars, env_vars, monitor_pc, monitor_cancelled,
                   waited, disc_pc, tool_vars>>

\* one turn of monitor_and_send_transcript's loop: sleep(1) lets a second pass,
\* waited += 1, break when the participant is gone or the session closed; after the
\* loop, the transcript
MonitorTick ==
    /\ monitor_pc = "sleeping"
    /\ ~monitor_cancelled
    /\ now' = now + 1
    /\ waited' = waited + 1
    /\ IF ~participant_in_room \/ session_closed \/ waited + 1 >= max_wait
       THEN monitor_pc' = "done" /\ monitor_send_transcript(now + 1)
       ELSE UNCHANGED <<monitor_pc, call_end_time, sheet>>
    /\ UNCHANGED <<sys_tz, dvars, sheets_api, auth_vars, rvars, transfer_to, call_start_time, appointment_vars,
                   participant_in_room, room_deleted, session_closed, calendar,
                   entry_pc, monitor_cancelled, disc_pc, tool_vars>>

\* CancelledError is raised in the monitor's sleep and caught; then the transcript
MonitorCancelled ==
    /\ monitor_pc = "sleeping"
    /\ monitor_cancelled
    /\ monitor_pc' = "done"
    /\ monitor_send_transcript(now)
    /\ UNCHANGED <<now, sys_tz, dvars, sheets_api, auth_vars, rvars, transfer_to, call_start_time, appointment_vars,
                   participant_in_room, room_deleted, session_closed, calendar,
                   entry_pc, monitor_cancelled, waited, disc_pc, tool_vars>>

\* the callee leaves the room (hangs up, is transferred away, or the room is deleted):
\* on_participant_disconnected_event creates the send_transcript_on_end task
ParticipantDisconnected ==
    /\ participant_in_room
    /\ participant_in_room' = FALSE
    /\ disc_pc' = "pending"
    /\ UNCHANGED <<now, sys_tz, dvars, sheets_api, auth_vars, rvars, agent_vars, room_deleted, session_closed, calendar,
                   sheet, entry_pc, monitor_pc, monitor_cancelled, waited, tool_vars>>

\* the task of the disconnect event runs send_transcript_on_end
DisconnectTask ==
    /\ disc_pc = "pending"
    /\ disc_pc' = "done"
    /\ send_transcript_on_end
    /\ UNCHANGED <<now, sys_tz, dvars, sheets_api, auth_vars, rvars, transfer_to, call_start_time, appointment_vars,
                   participant_in_room, room_deleted, session_closed, calendar,
                   entry_pc, monitor_pc, monitor_cancelled, waited, tool_vars>>

\* the AgentSession closes once its participant left or its room is deleted
SessionClosed ==
    /\ Connected
    /\ ~session_closed
    /\ ~participant_in_room \/ room_deleted
    /\ session_closed' = TRUE
    /\ UNCHANGED <<now, sys_tz, dvars, sheets_api, auth_vars, rvars, agent_vars, participant_in_room, room_deleted,
                   calendar, sheet, task_vars, tool_vars>>

\* ---------------------------------------------------------------- calendar gateway
max_attempts == 48
SlotMinutes == 30

Event(start, attendee, own) ==
    [start |-> start, end |-> start + SlotMinutes * MINUTE, attendee |-> attendee, own |-> own]

\* events().list(timeMin, timeMax): the events that overlap [time_min, time_max)
EventsIn(cal, time_min, time_max) ==
    {i \in 1..Len(cal) : cal[i].end > time_min /\ cal[i].start < time_max}

\* _check_availability_sync
check_availability_sync(cal, start_time, end_time) ==
    EventsIn(cal, start_time, end_time) = {}

\* a wrapper that takes a request that raised for a free slot
check_availability_unless_busy(done) ==
    done.status = "fail" \/ done.value = 1

\* check_availability: what the caller gets once the executor is done with
\* _check_availability_sync ("except Exception: ... return False")
check_availability(done) ==
    done.status = "ok" /\ done.value = 1

\* a search that moves on by an hour
RECURSIVE next_available_hourly(_, _, _, _, _)
next_available_hourly(cal, preferred_time, duration_minutes, check_time, attempt) ==
    IF attempt >= max_attempts
    THEN [time |-> preferred_time + 24 * HOUR, probes |-> attempt]
    ELSE IF EventsIn(cal, check_time, check_time + duration_minutes * MINUTE) = {}
    THEN [time |-> check_time, probes |-> attempt + 1]
    ELSE next_available_hourly(cal, preferred_time, duration_minutes,
                               check_time + 60 * MINUTE, attempt + 1)

\* _get_next_available_sync, the loop "for _ in range(max_attempts)" from its turn
\* attempt on: the time returned and the number of events().list requests made
RECURSIVE next_available_loop(_, _, _, _, _)
next_available_loop(cal, preferred_time, duration_minutes, check_time, attempt) ==
    IF attempt >= max_attempts
    THEN [time |-> preferred_time + 24 * HOUR, probes |-> attempt]
    ELSE IF EventsIn(cal, check_time, check_time + duration_minutes * MINUTE) = {}
    THEN [time |-> check_time, probes |-> attempt + 1]
    ELSE next_available_loop(cal, preferred_time, duration_minutes,
                             check_time + 30 * MINUTE, attempt + 1)

\* _get_next_available_sync
get_next_available_sync(cal, preferred_time, duration_minutes) ==
    next_available_loop(cal, preferred_time, duration_minutes, preferred_time, 0).time

\* _ensure_authenticated. refresh_ok: creds.refresh(Request()) goes through; oauth: what
\* the browser flow comes to. The result: whether it raised, and what it left in
\* self._authenticated, self.creds and token.json.
OAuthOutcomes == {"no_credentials_json", "flow_fails", "flow_ok"}

\* "if not self.creds or not self.creds.valid", after the refresh was tried
auth_renewed(a, c, tok, oauth) ==
    IF c = "valid" \/ oauth = "flow_ok"
    THEN [raised |-> FALSE, authenticated |-> TRUE, creds |-> "valid", token_json |-> "valid"]
    ELSE [raised |-> TRUE, authenticated |-> a, creds |-> c, token_json |-> tok]

\* the credentials as read from token.json, c when there is no file
auth_loaded(a, c, tok, refresh_ok, oauth) ==
    IF c = "valid"
    THEN [raised |-> FALSE, authenticated |-> TRUE, creds |-> c, token_json |-> tok]
    ELSE auth_renewed(a, IF c = "expired" /\ refresh_ok THEN "valid" ELSE "none", tok, oauth)

ensure_authenticated(a, c, tok, refresh_ok, oauth) ==
    IF a /\ c = "valid"
    THEN [raised |-> FALSE, authenticated |-> a, creds |-> c, token_json |-> tok]
    ELSE auth_loaded(a, IF tok = "absent" THEN c ELSE IF tok = "corrupt" THEN "none" ELSE tok,
                     tok, refresh_ok, oauth)

\* the job's call of self._ensure_authenticated() returns
Authenticated(auth) ==
    /\ ~auth.raised
    /\ authenticated' = auth.authenticated
    /\ creds' = auth.creds
    /\ token_json' = auth.token_json

\* the calendar request of the job: events().insert / events().list
ExecutorRequest(job) ==
    /\ executor' = Tail(executor)
    /\ IF job.op = "create"
       THEN /\ calendar' = Append(calendar, Event(job.start, job.attendee, TRUE))
            /\ exec_done' = [exec_done EXCEPT ![job.tool] = [status |-> "ok", value |-> 0]]
       ELSE IF job.op = "check"
       THEN /\ UNCHANGED calendar
            /\ exec_done' = [exec_done EXCEPT ![job.tool] =
                 [status |-> "ok",
                  value |-> IF check_availability_sync(calendar, job.start,
                                   job.start + SlotMinutes * MINUTE) THEN 1 ELSE 0]]
       ELSE /\ UNCHANGED calendar
            /\ exec_done' = [exec_done EXCEPT ![job.tool] =
                 [status |-> "ok",
                  value |-> get_next_available_sync(calendar, job.start, SlotMinutes)]]
    /\ UNCHANGED <<now, sys_tz, dvars, sheets_api, rvars, agent_vars, participant_in_room, room_deleted,
                   session_closed, sheet, task_vars, tool_calls, end_pc, vm_pc, tr_pc,
                   tr_result, sm_pc, sm_args, sm_result, ca_pc, ca_args, ca_result>>

\* the job's exception reaches the wrapper's except: nothing is written to the calendar
ExecutorRaised(job) ==
    /\ executor' = Tail(executor)
    /\ exec_done' = [exec_done EXCEPT ![job.tool] = [status |-> "fail", value |-> 0]]
    /\ UNCHANGED <<now, sys_tz, dvars, sheets_api, rvars, agent_vars, env_vars, task_vars, tool_calls, end_pc,
                   vm_pc, tr_pc, tr_result, sm_pc, sm_args, sm_result, ca_pc, ca_args,
                   ca_result>>

\* a worker that sends the request without a look at the credentials
ExecutorRun_unauthenticated ==
    /\ executor /= <<>>
    /\ UNCHANGED auth_vars
    /\ ExecutorRequest(Head(executor))

\* the executor's worker runs the job at the head of its queue: _create_event_sync,
\* _check_availability_sync or _get_next_available_sync
ExecutorRun ==
    /\ executor /= <<>>
    /\ \E refresh_ok \in BOOLEAN, oauth \in OAuthOutcomes :
          Authenticated(ensure_authenticated(authenticated, creds, token_json, refresh_ok, oauth))
    /\ ExecutorRequest(Head(executor))

\* the request of the job at the head of the queue raises (HttpError, a network
\* error, a timeout)
ExecutorRaise ==
    /\ executor /= <<>>
    /\ \E refresh_ok \in BOOLEAN, oauth \in OAuthOutcomes :
          Authenticated(ensure_authenticated(authenticated, creds, token_json, refresh_ok, oauth))
    /\ ExecutorRaised(Head(executor))

\* _ensure_authenticated raises in the job at the head of the queue
\* (FileNotFoundError, RuntimeError): no request is sent
ExecutorAuthRaise ==
    /\ executor /= <<>>
    /\ \E refresh_ok \in BOOLEAN, oauth \in OAuthOutcomes :
          /\ ensure_authenticated(authenticated, creds, token_json, refresh_ok, oauth).raised
          /\ creds' =
                ensure_authenticated(authenticated, creds, token_json, refresh_ok, oauth).creds
    /\ UNCHANGED <<authenticated, token_json>>
    /\ ExecutorRaised(Head(executor))

\* the access token runs out
TokenExpires ==
    /\ creds = "valid" \/ token_json = "valid"
    /\ creds' = IF creds = "valid" THEN "expired" ELSE creds
    /\ token_json' = IF token_json = "valid" THEN "expired" ELSE token_json
    /\ UNCHANGED <<now, sys_tz, dvars, sheets_api, authenticated, cvars, rvars>>

\* ---------------------------------------------------------------- function tools
MaxToolCalls == 2

\* the LLM may call a tool while the entrypoint holds the call and the session is open
CanInvoke ==
    /\ entry_pc \in {"greeting", "await_monitor"}
    /\ ~session_closed
    /\ tool_calls < MaxToolCalls

\* end_call, up to await ctx.wait_for_playout()
end_call ==
    /\ CanInvoke
    /\ end_pc = "idle"
    /\ end_pc' = "playout"
    /\ tool_calls' = tool_calls + 1
    /\ UNCHANGED <<now, sys_tz, dvars, sheets_api, auth_vars, rvars, agent_vars, env_vars, task_vars, vm_pc, tr_pc,
                   tr_result, sm_pc, sm_args, sm_result, ca_pc, ca_args, ca_result,
                   executor, exec_done>>

\* an end_call whose hangup lets the exception of update_from_webhook_data through
end_call_hangup_uncaught ==
    /\ end_pc = "playout"
    /\ end_pc' = IF sheets_api = "raises" THEN "idle" ELSE "deleting"
    /\ hangup("completed", TRUE)
    /\ UNCHANGED <<now, sys_tz, dvars, sheets_api, auth_vars, rvars, transfer_to, call_start_time, appointment_vars,
                   participant_in_room, room_deleted, session_closed, calendar, task_vars,
                   tool_calls, vm_pc, tr_pc, tr_result, sm_pc, sm_args, sm_result, ca_pc,
                   ca_args, ca_result, executor, exec_done>>

\* end_call: await self.hangup(), up to delete_room
end_call_hangup ==
    /\ end_pc = "playout"
    /\ end_pc' = "deleting"
    /\ hangup("completed", TRUE)
    /\ UNCHANGED <<now, sys_tz, dvars, sheets_api, auth_vars, rvars, transfer_to, call_start_time, appointment_vars,
                   participant_in_room, room_deleted, session_closed, calendar, task_vars,
                   tool_calls, vm_pc, tr_pc, tr_result, sm_pc, sm_args, sm_result, ca_pc,
                   ca_args, ca_result, executor, exec_done>>

\* detected_answering_machine, up to delete_room: call_end_time is overwritten, the
\* results are sent, and hangup("voicemail", send_results=False) finds the end time set
detected_answering_machine ==
    /\ CanInvoke
    /\ vm_pc = "idle"
    /\ vm_pc' = "deleting"
    /\ tool_calls' = tool_calls + 1
    /\ call_end_time' = Some(now)
    /\ send_call_results_to_sheets("voicemail", Some(now), now)
    /\ UNCHANGED <<now, sys_tz, dvars, sheets_api, auth_vars, rvars, transfer_to, call_start_time, appointment_vars,
                   participant_in_room, room_deleted, session_closed, calendar, task_vars,
                   end_pc, tr_pc, tr_result, sm_pc, sm_args, sm_result, ca_pc, ca_args,
                   ca_result, executor, exec_done>>

\* transfer_call, up to the first generate_reply
transfer_call ==
    /\ CanInvoke
    /\ tr_pc = "idle"
    /\ tool_calls' = tool_calls + 1
    /\ IF ~IsSome(transfer_to)
       THEN tr_result' = [kind |-> "raise"] /\ UNCHANGED tr_pc              \* KeyError
       ELSE IF Get(transfer_to) = ""
       THEN tr_result' = [kind |-> "cannot transfer call"] /\ UNCHANGED tr_pc
       ELSE tr_result' = NoResult /\ tr_pc' = "announce"
    /\ UNCHANGED <<now, sys_tz, dvars, sheets_api, auth_vars, rvars, agent_vars, env_vars, task_vars, end_pc, vm_pc,
                   sm_pc, sm_args, sm_result, ca_pc, ca_args, ca_result, executor,
                   exec_done>>

\* transfer_call: generate_reply returns (it raises once the session is closed), then
\* transfer_sip_participant is awaited
transfer_call_announced ==
    /\ tr_pc = "announce"
    /\ IF session_closed
       THEN tr_pc' = "idle" /\ tr_result' = [kind |-> "raise"]
       ELSE tr_pc' = "transferring" /\ UNCHANGED tr_result
    /\ UNCHANGED <<now, sys_tz, dvars, sheets_api, auth_vars, rvars, agent_vars, env_vars, task_vars, tool_calls, end_pc,
                   vm_pc, sm_pc, sm_args, sm_result, ca_pc, ca_args, ca_result, executor,
                   exec_done>>

\* transfer_sip_participant returns
transfer_call_done ==
    /\ tr_pc = "transferring"
    /\ tr_pc' = "idle"
    /\ tr_result' = [kind |-> "transferred"]
    /\ UNCHANGED <<now, sys_tz, dvars, sheets_api, auth_vars, rvars, agent_vars, env_vars, task_vars, tool_calls, end_pc,
                   vm_pc, sm_pc, sm_args, sm_result, ca_pc, ca_args, ca_result, executor,
                   exec_done>>

\* transfer_sip_participant raises: generate_reply is awaited
transfer_call_error ==
    /\ tr_pc = "transferring"
    /\ tr_pc' = "error_reply"
    /\ UNCHANGED <<now, sys_tz, dvars, sheets_api, auth_vars, rvars, agent_vars, env_vars, task_vars, tool_calls, end_pc,
                   vm_pc, tr_result, sm_pc, sm_args, sm_result, ca_pc, ca_args, ca_result,
                   executor, exec_done>>

\* transfer_call: after the error reply, await self.hangup(), up to delete_room
transfer_call_hangup ==
    /\ tr_pc = "error_reply"
    /\ IF session_closed
       THEN /\ tr_pc' = "idle"
            /\ tr_result' = [kind |-> "raise"]
            /\ UNCHANGED <<call_end_time, sheet>>
       ELSE /\ tr_pc' = "deleting"
            /\ UNCHANGED tr_result
            /\ hangup("completed", TRUE)
    /\ UNCHANGED <<now, sys_tz, dvars, sheets_api, auth_vars, rvars, transfer_to, call_start_time, appointment_vars,
                   participant_in_room, room_deleted, session_closed, calendar, task_vars,
                   tool_calls, end_pc, vm_pc, sm_pc, sm_args, sm_result, ca_pc, ca_args,
                   ca_result, executor, exec_done>>

\* hangup: delete_room returns, in end_call, detected_answering_machine or transfer_call
delete_room ==
    /\ end_pc = "deleting" \/ vm_pc = "deleting" \/ tr_pc = "deleting"
    /\ \E t \in {"end", "vm", "tr"} :
        /\ t = "end" => end_pc = "deleting"
        /\ t = "vm" => vm_pc = "deleting"
        /\ t = "tr" => tr_pc = "deleting"
        /\ end_pc' = IF t = "end" THEN "idle" ELSE end_pc
        /\ vm_pc' = IF t = "vm" THEN "idle" ELSE vm_pc
        /\ tr_pc' = IF t = "tr" THEN "idle" ELSE tr_pc
        /\ tr_result' = IF t = "tr" THEN [kind |-> "hung up"] ELSE tr_result
    /\ room_deleted' = TRUE
    /\ UNCHANGED <<now, sys_tz, dvars, sheets_api, auth_vars, rvars, agent_vars, participant_in_room, session_closed,
                   calendar, sheet, task_vars, tool_calls, sm_pc, sm_args, sm_result,
                   ca_pc, ca_args, ca_result, executor, exec_done>>

\* what the LLM passes to the tools during a call
CallEmails == {"", "j o h n at gmail dot co"}
CallUtterances == {"Tuesday at 10am"}
CheckUtterances == CallUtterances \cup {"mornings", "in the afternoon", "evening works"}

\* the instants a call is placed at, and the instants its clock can show
CallInstants == { Jan2026(12, 17, 0, 0) }
CallTimes == { t + k : t \in CallInstants, k \in 0..max_wait }

\* what the LLM passes to schedule_meeting when the callee books and books again
BookEmails == {"a@x.com", "b at y dot com"}
BookUtterances == {"Tuesday at 10am", "tomorrow at 3pm"}

\* the tools' parsing of these inputs, evaluated once
parsed_email == [e \in CallEmails \cup BookEmails |-> parse_email(e)]
book_resolved ==
    [d \in CallUtterances \cup BookUtterances, t \in CallTimes |->
        schedule_meeting_resolve(d, t)]
check_resolved ==
    [d \in CheckUtterances, t \in CallTimes, z \in SysZones |-> checkAvailability_resolve(d, t, z)]

\* the message schedule_meeting returns after create_meet_event returned
success_msg(start_time, email) ==
    [kind |-> "Calendar invite sent successfully",
     time_str |-> FormatDateTime(AsTimezone(Aware(start_time, UTC), PST)),
     email |-> email]

\* the message of schedule_meeting's except branch
noted_msg(start_time, email) ==
    [kind |-> "I've noted your meeting request",
     time_str |-> FormatDateTime(AsTimezone(Aware(start_time, UTC), PST)),
     email |-> email]

\* schedule_meeting without its check of the email
schedule_meeting_unchecked(email, dateTime) ==
    /\ CanInvoke
    /\ sm_pc = "idle"
    /\ tool_calls' = tool_calls + 1
    /\ LET to == parsed_email[email]
           r == book_resolved[dateTime, now]
       IN  IF r.kind = "raise"
           THEN /\ sm_result' = [kind |-> "raise"]
                /\ sm_args' = [NoArgs EXCEPT !.email = email, !.dateTime = dateTime,
                                             !.to = to]
                /\ UNCHANGED <<sm_pc, executor>>
           ELSE /\ sm_result' = NoResult
                /\ sm_args' = [email |-> email, dateTime |-> dateTime, to |-> to,
                               start_time |-> r.utc]
                /\ sm_pc' = "creating"
                /\ executor' = Append(executor,
                       [tool |-> "sm", op |-> "create", start |-> r.utc, attendee |-> to])
    /\ UNCHANGED <<now, sys_tz, dvars, sheets_api, auth_vars, rvars, agent_vars, env_vars, task_vars, end_pc, vm_pc,
                   tr_pc, tr_result, ca_pc, ca_args, ca_result, exec_done>>

\* schedule_meeting, up to await self._calendar.create_meet_event(...)
schedule_meeting(email, dateTime) ==
    /\ CanInvoke
    /\ sm_pc = "idle"
    /\ tool_calls' = tool_calls + 1
    /\ IF email = ""
       THEN /\ sm_result' = [kind |-> "I need your email address"]
            /\ sm_args' = [NoArgs EXCEPT !.email = email, !.dateTime = dateTime]
            /\ UNCHANGED <<sm_pc, executor>>
       ELSE LET to == parsed_email[email]
                r == book_resolved[dateTime, now]
            IN  IF r.kind = "raise"
                THEN /\ sm_result' = [kind |-> "raise"]          \* ValueError
                     /\ sm_args' = [NoArgs EXCEPT !.email = email, !.dateTime = dateTime,
                                                  !.to = to]
                     /\ UNCHANGED <<sm_pc, executor>>
                ELSE /\ sm_result' = NoResult
                     /\ sm_args' = [email |-> email, dateTime |-> dateTime, to |-> to,
                                    start_time |-> r.utc]
                     /\ sm_pc' = "creating"
                     /\ executor' = Append(executor,
                            [tool |-> "sm", op |-> "create", start |-> r.utc, attendee |-> to])
    /\ UNCHANGED <<now, sys_tz, dvars, sheets_api, auth_vars, rvars, agent_vars, env_vars, task_vars, end_pc, vm_pc,
                   tr_pc, tr_result, ca_pc, ca_args, ca_result, exec_done>>

\* a schedule_meeting that records the slot and forgets the email
schedule_meeting_created_no_email ==
    /\ sm_pc = "creating"
    /\ exec_done.sm.status /= "none"
    /\ sm_pc' = "idle"
    /\ exec_done' = [exec_done EXCEPT !.sm = JobNone]
    /\ appointment_scheduled' = TRUE
    /\ appointment_time_scheduled' = Some(sm_args.start_time)
    /\ UNCHANGED appointment_email
    /\ sm_result' = success_msg(sm_args.start_time, sm_args.to)
    /\ UNCHANGED <<now, sys_tz, dvars, sheets_api, auth_vars, rvars, transfer_to, call_start_time, call_end_time,
                   env_vars, task_vars, tool_calls, end_pc, vm_pc, tr_pc, tr_result,
                   sm_args, ca_pc, ca_args, ca_result, executor>>

\* schedule_meeting after create_meet_event returned: the link, or None when the
\* request raised (create_meet_event catches every Exception and returns None)
schedule_meeting_created ==
    /\ sm_pc = "creating"
    /\ exec_done.sm.status /= "none"
    /\ sm_pc' = "idle"
    /\ exec_done' = [exec_done EXCEPT !.sm = JobNone]
    /\ appointment_scheduled' = TRUE
    /\ appointment_time_scheduled' = Some(sm_args.start_time)
    /\ appointment_email' = Some(sm_args.to)
    /\ sm_result' = success_msg(sm_args.start_time, sm_args.to)
    /\ UNCHANGED <<now, sys_tz, dvars, sheets_api, auth_vars, rvars, transfer_to, call_start_time, call_end_time,
                   env_vars, task_vars, tool_calls, end_pc, vm_pc, tr_pc, tr_result,
                   sm_args, ca_pc, ca_args, ca_result, executor>>

SuggestedTimes(period) ==
    IF period = "morning" THEN <<"9am", "10am", "11am">>
    ELSE IF period = "afternoon" THEN <<"1pm", "2pm", "3pm">>
    ELSE <<"4pm", "5pm", "6pm">>

\* strftime("%A at %I:%M %p")
FormatDayTime(dt) ==
    [A |-> Weekday(dt), I |-> Hour12(dt), M |-> MinuteOf(dt), p |-> AmPm(dt)]

\* a checkAvailability that queues a calendar request although the period is vague
checkAvailability_asks(dateTime) ==
    /\ CanInvoke
    /\ ca_pc = "idle"
    /\ tool_calls' = tool_calls + 1
    /\ LET r == check_resolved[dateTime, now, sys_tz]
       IN  IF r.kind = "vague"
           THEN /\ ca_result' = [available |-> TRUE,
                                 suggested_times |-> SuggestedTimes(r.period),
                                 time_preference |-> r.period]
                /\ ca_args' = [NoArgs EXCEPT !.dateTime = dateTime]
                /\ UNCHANGED ca_pc
                /\ executor' = Append(executor,
                        [tool |-> "ca", op |-> "check", start |-> now, attendee |-> ""])
           ELSE /\ ca_result' = NoResult
                /\ ca_args' = [NoArgs EXCEPT !.dateTime = dateTime, !.start_time = r.utc]
                /\ ca_pc' = "checking"
                /\ executor' = Append(executor,
                        [tool |-> "ca", op |-> "check", start |-> r.utc, attendee |-> ""])
    /\ UNCHANGED <<now, sys_tz, dvars, sheets_api, auth_vars, rvars, agent_vars, env_vars, task_vars, end_pc, vm_pc,
                   tr_pc, tr_result, sm_pc, sm_args, sm_result, exec_done>>

\* checkAvailability, up to await self._calendar.check_availability(dt, end_time)
checkAvailability(dateTime) ==
    /\ CanInvoke
    /\ ca_pc = "idle"
    /\ tool_calls' = tool_calls + 1
    /\ LET r == check_resolved[dateTime, now, sys_tz]
       IN  IF r.kind = "vague"
           THEN /\ ca_result' = [available |-> TRUE,
                                 suggested_times |-> SuggestedTimes(r.period),
                                 time_preference |-> r.period]
                /\ ca_args' = [NoArgs EXCEPT !.dateTime = dateTime]
                /\ UNCHANGED <<ca_pc, executor>>
           ELSE /\ ca_result' = NoResult
                /\ ca_args' = [NoArgs EXCEPT !.dateTime = dateTime, !.start_time = r.utc]
                /\ ca_pc' = "checking"
                /\ executor' = Append(executor,
                        [tool |-> "ca", op |-> "check", start |-> r.utc, attendee |-> ""])
    /\ UNCHANGED <<now, sys_tz, dvars, sheets_api, auth_vars, rvars, agent_vars, env_vars, task_vars, end_pc, vm_pc,
                   tr_pc, tr_result, sm_pc, sm_args, sm_result, exec_done>>

\* a checkAvailability that takes every slot for free
checkAvailability_checked_free ==
    /\ ca_pc = "checking"
    /\ exec_done.ca.status /= "none"
    /\ exec_done' = [exec_done EXCEPT !.ca = JobNone]
    /\ ca_pc' = "idle"
    /\ ca_result' = [available |-> TRUE, message |-> "That time works perfectly."]
    /\ UNCHANGED executor
    /\ UNCHANGED <<now, sys_tz, dvars, sheets_api, auth_vars, rvars, agent_vars, env_vars, task_vars, tool_calls, end_pc,
                   vm_pc, tr_pc, tr_result, sm_pc, sm_args, sm_result, ca_args>>

\* a checkAvailability that remembers it was asked before and then takes the slot for free
checkAvailability_checked_again ==
    /\ ca_pc = "checking"
    /\ exec_done.ca.status /= "none"
    /\ exec_done' = [exec_done EXCEPT !.ca = JobNone]
    /\ IF (exec_done.ca.status = "ok" /\ exec_done.ca.value = 1) \/ tool_calls > 1
       THEN /\ ca_pc' = "idle"
            /\ ca_result' = [available |-> TRUE, message |-> "That time works perfectly."]
            /\ UNCHANGED executor
       ELSE /\ ca_pc' = "searching"
            /\ UNCHANGED ca_result
            /\ executor' = Append(executor,
                    [tool |-> "ca", op |-> "next", start |-> ca_args.start_time,
                     attendee |-> ""])
    /\ UNCHANGED <<now, sys_tz, dvars, sheets_api, auth_vars, rvars, agent_vars, env_vars, task_vars, tool_calls, end_pc,
                   vm_pc, tr_pc, tr_result, sm_pc, sm_args, sm_result, ca_args>>

\* checkAvailability after check_availability returned (False when it raised): the
\* answer, or await self._calendar.get_next_available_time(dt)
checkAvailability_checked ==
    /\ ca_pc = "checking"
    /\ exec_done.ca.status /= "none"
    /\ exec_done' = [exec_done EXCEPT !.ca = JobNone]
    /\ IF check_availability(exec_done.ca)
       THEN /\ ca_pc' = "idle"
            /\ ca_result' = [available |-> TRUE, message |-> "That time works perfectly."]
            /\ UNCHANGED executor
       ELSE /\ ca_pc' = "searching"
            /\ UNCHANGED ca_result
            /\ executor' = Append(executor,
                    [tool |-> "ca", op |-> "next", start |-> ca_args.start_time,
                     attendee |-> ""])
    /\ UNCHANGED <<now, sys_tz, dvars, sheets_api, auth_vars, rvars, agent_vars, env_vars, task_vars, tool_calls, end_pc,
                   vm_pc, tr_pc, tr_result, sm_pc, sm_args, sm_result, ca_args>>

\* checkAvailability after get_next_available_time returned (preferred_time + 1 hour
\* when it raised)
checkAvailability_next ==
    /\ ca_pc = "searching"
    /\ exec_done.ca.status /= "none"
    /\ exec_done' = [exec_done EXCEPT !.ca = JobNone]
    /\ ca_pc' = "idle"
    /\ LET next_available == IF exec_done.ca.status = "ok" THEN exec_done.ca.value
                             ELSE ca_args.start_time + HOUR
       IN  ca_result' = [available |-> FALSE,
                         next_available_time |-> FormatDayTime(Aware(next_available, UTC)),
                         next_available |-> next_available]
    /\ UNCHANGED <<now, sys_tz, dvars, sheets_api, auth_vars, rvars, agent_vars, env_vars, task_vars, tool_calls, end_pc,
                   vm_pc, tr_pc, tr_result, sm_pc, sm_args, sm_result, ca_args, executor>>

\* ---------------------------------------------------------------- the specification
\* the jobs checked: the host's zone, the transfer target of the job's metadata and
\* what the calendar holds when the call is placed (an event on Tuesday 10:00 UTC)
BusyCalendar == <<Event(Jan2026(13, 10, 0, 0), "busy@example.com", FALSE)>>
Jobs ==
    { [tz |-> PST, transfer_to |-> Some("+15105550123"), calendar |-> <<>>],
      [tz |-> UTC, transfer_to |-> Some(""), calendar |-> BusyCalendar],
      [tz |-> PST, transfer_to |-> None, calendar |-> BusyCalendar] }

Init ==
    /\ now \in CallInstants
    /\ \E job \in Jobs : sys_tz = job.tz /\ CallStart(job.transfer_to, job.calendar)
    /\ token_json = "valid"
    /\ DispatchInit
    /\ sheets_api = "ok"
    /\ r_pc = "idle"
    /\ r_text = ""
    /\ r_check = None
    /\ r_book = None

Next ==
    \/ DialAnswered
    \/ DialFailed
    \/ GreetingDone
    \/ GreetingFailed
    \/ MonitorAwaited
    \/ MonitorTick
    \/ MonitorCancelled
    \/ ParticipantDisconnected
    \/ DisconnectTask
    \/ SessionClosed
    \/ end_call
    \/ end_call_hangup
    \/ detected_answering_machine
    \/ transfer_call
    \/ transfer_call_announced
    \/ transfer_call_done
    \/ transfer_call_error
    \/ transfer_call_hangup
    \/ delete_room
    \/ \E email \in CallEmails, dateTime \in CallUtterances : schedule_meeting(email, dateTime)
    \/ schedule_meeting_created
    \/ \E dateTime \in CheckUtterances : checkAvailability(dateTime)
    \/ checkAvailability_checked
    \/ checkAvailability_next
    \/ ExecutorRun
    \/ ExecutorRaise

Spec == Init /\ [][Next]_vars

\* the event loop runs a task whose sleep is over or that was cancelled
FairSpec == Spec /\ WF_vars(MonitorTick) /\ WF_vars(MonitorCancelled)

\* ---------------------------------------------------------------- claims
OwnEvents == {i \in 1..Len(calendar) : calendar[i].own}

\* C1: under any interleaving of the termination triggers the outcome of a call is
\* handed to the result sink at most once.
C1_AtMostOneReport == Len(sheet) <= 1

\* C2: once the callee has connected (call_start_time is set), a report is
\* eventually handed to the result sink, whichever trigger fires first.
C2_EventuallyReported == [](Connected => <>(sheet /= <<>>))

\* C2 witness: a connected call that nobody ended, reported by the monitor alone
C2_Witness ==
    /\ Connected /\ Len(sheet) = 1 /\ monitor_pc = "done"
    /\ tool_calls = 0 /\ disc_pc = "none" /\ entry_pc = "await_monitor"

\* C3: once a call is finalized (call_end_time set and a status reported), no later
\* trigger changes call_end_time or reports again.
C3_FinalizedOnce ==
    [][(IsSome(call_end_time) /\ sheet /= <<>>)
        => (call_end_time' = call_end_time /\ sheet' = sheet)]_vars

\* C4: when the calendar request of create_meet_event fails, schedule_meeting leaves
\* the appointment fields as they were and returns the "noted ... processing" message.
C4_FailedBookingUnscheduled ==
    [][(sm_pc = "creating" /\ exec_done.sm.status = "fail" /\ sm_pc' = "idle")
        => (/\ UNCHANGED appointment_vars
            /\ sm_result' = noted_msg(sm_args.start_time, sm_args.to))]_vars

\* C5: whenever a calendar event was created for the call and a report was handed to
\* the result sink, a report carries appointment_scheduled = true with the slot and
\* the email of a created event.
C5_BookingReported ==
    (sheet /= <<>> /\ OwnEvents /= {})
        => \E i \in 1..Len(sheet), j \in OwnEvents :
            /\ sheet[i].appointment_scheduled
            /\ sheet[i].appointment_time =
                    Some(FormatDateTime(AsTimezone(Aware(calendar[j].start, UTC), PST)))
            /\ sheet[i].appointment_email = Some(calendar[j].attendee)

\* C6: booking never creates a calendar event that overlaps an event the calendar
\* already holds (the same request made again, or a slot already taken).
C6_NoOverlappingEvent ==
    \A i, j \in 1..Len(calendar) :
        (i < j /\ calendar[j].own)
            => ~(calendar[i].end > calendar[j].start /\ calendar[i].start < calendar[j].end)

\* C7: for the same utterance at the same reference instant, checkAvailability and
\* schedule_meeting resolve to the same absolute UTC instant.
C7_SameInstant == (IsSome(r_check) /\ IsSome(r_book)) => Get(r_check) = Get(r_book)

\* C8: appointment_scheduled is true exactly when appointment_time_scheduled and
\* appointment_email are both set; before any tool ran all three are false/null; and
\* when schedule_meeting returned its confirmation the three hold the start of the
\* requested slot and the normalized email, which the message carries too.
C8_AppointmentConsistent ==
    /\ appointment_scheduled
        <=> (IsSome(appointment_time_scheduled) /\ IsSome(appointment_email))
    /\ tool_calls = 0
        => (~appointment_scheduled /\ appointment_time_scheduled = None
            /\ appointment_email = None)
    /\ sm_result.kind = "Calendar invite sent successfully"
        => /\ appointment_scheduled
           /\ sm_args.to = parsed_email[sm_args.email]
           /\ \E t \in CallTimes : book_resolved[sm_args.dateTime, t] = Moment(sm_args.start_time)
           /\ appointment_time_scheduled = Some(sm_args.start_time)
           /\ appointment_email = Some(sm_args.to)
           /\ sm_result.email = sm_args.to
           /\ sm_result.time_str =
                FormatDateTime(AsTimezone(Aware(sm_args.start_time, UTC), PST))

\* C8 witness: a booking was confirmed
C8_Witness ==
    /\ sm_result.kind = "Calendar invite sent successfully"
    /\ appointment_email = Some("john@gmail.co")
    /\ OwnEvents /= {}

\* C9: schedule_meeting called with an empty email returns the request for the email
\* and does nothing else: no calendar request, the appointment fields unchanged.
C9_EmptyEmailNoEffect ==
    [][(\E d \in CallUtterances : schedule_meeting("", d))
        => (/\ sm_result'.kind = "I need your email address"
            /\ UNCHANGED <<appointment_vars, calendar, executor, exec_done, sm_pc>>)]_vars

\* C9 witness: the request for the email was returned after a booking was confirmed
C9_Witness ==
    /\ sm_result.kind = "I need your email address"
    /\ sm_args.email = ""
    /\ appointment_scheduled

\* the period an utterance names, as the claim reads it
NamedPeriod ==
    [d \in CheckUtterances |->
        IF Contains(Lower(d), "morning") THEN "morning"
        ELSE IF Contains(Lower(d), "afternoon") THEN "afternoon"
        ELSE IF Contains(Lower(d), "evening") THEN "evening"
        ELSE ""]

\* C10: checkAvailability on an utterance that names a vague period answers
\* available with the period's candidate times (morning 9am 10am 11am, afternoon
\* 1pm 2pm 3pm, evening 4pm 5pm 6pm) and makes no calendar request, however often.
C10_VaguePeriodNoCalendar ==
    [][\A d \in CheckUtterances :
        (NamedPeriod[d] /= "" /\ checkAvailability(d))
            => (/\ ca_result'.available
                /\ ca_result'.suggested_times =
                    (IF NamedPeriod[d] = "morning" THEN <<"9am", "10am", "11am">>
                     ELSE IF NamedPeriod[d] = "afternoon" THEN <<"1pm", "2pm", "3pm">>
                     ELSE <<"4pm", "5pm", "6pm">>)
                /\ UNCHANGED <<appointment_vars, calendar, executor, exec_done, ca_pc>>)]_vars

\* C10 witness: the disambiguation answer given twice in a call, the calendar untouched
C10_Witness ==
    /\ tool_calls = 2
    /\ ca_pc = "idle" /\ sm_pc = "idle" /\ end_pc = "idle" /\ vm_pc = "idle" /\ tr_pc = "idle"
    /\ ca_result = [available |-> TRUE, suggested_times |-> <<"4pm", "5pm", "6pm">>,
                    time_preference |-> "evening"]
    /\ sm_result = NoResult /\ tr_result = NoResult /\ sheet = <<>>
    /\ OwnEvents = {} /\ executor = <<>>

\* ---------------------------------------------------------------- resolver harness
\* reference instants: Monday 09:00 PST, Monday 14:00 UTC sharp, Monday 14:00 PST
\* sharp, Tuesday 15:00 PST, and Tuesday 19:30:20 PST (already Wednesday in UTC)
RefInstants ==
    { Jan2026(12, 17, 0, 0), Jan2026(12, 14, 0, 0), Jan2026(12, 22, 0, 0),
      Jan2026(13, 23, 0, 0), Jan2026(14, 3, 30, 20) }

Utterances ==
    { "2pm", "Tuesday at 10am", "Monday at 8am", "Monday at 10am", "Monday at 2pm",
      "tomorrow at 3pm",
      "mornings", "in the afternoon", "evening works", "10am in the morning",
      "Tuesday tomorrow at 2pm", "Friday or Monday 9:30 am", "12am", "1230pm",
      "13pm", "2:75pm", "next week", "tomorrow", "Tuesday",
      "2026-01-15 14:00:00", "2026-01-15T14:00:00Z", "2026-01-15T14:00:00-08:00",
      "2026-01-15T14:00:00", "" }

RInit ==
    /\ now \in RefInstants
    /\ sys_tz \in SysZones
    /\ r_pc = "idle"
    /\ r_text \in Utterances
    /\ r_check = None
    /\ r_book = None
    /\ CallStart(Some(""), <<>>)
    /\ token_json = "valid"
    /\ DispatchInit
    /\ sheets_api = "ok"

\* the utterance is given to checkAvailability
RCheck ==
    /\ r_check = None
    /\ r_check' = Some(checkAvailability_resolve(r_text, now, sys_tz))
    /\ r_pc' = "applied"
    /\ UNCHANGED <<now, sys_tz, dvars, sheets_api, auth_vars, r_text, r_book, cvars>>

\* the utterance is given to schedule_meeting
RBook ==
    /\ r_book = None
    /\ r_book' = Some(schedule_meeting_resolve(r_text, now))
    /\ r_pc' = "applied"
    /\ UNCHANGED <<now, sys_tz, dvars, sheets_api, auth_vars, r_text, r_check, cvars>>

RNext == RCheck \/ RBook

SpecResolve == RInit /\ [][RNext]_vars

\* ---------------------------------------------------------------- claims, continued
\* C11: for an utterance that resolves to a moment dt, checkAvailability asks the
\* calendar about the 30-minute slot from dt; when the calendar reports it free the
\* answer is available with "That time works perfectly."; otherwise it asks for the
\* next available time from dt and answers not available with that time.
C11_CheckThenAnswer ==
    [][/\ \A d \in CheckUtterances :
            (check_resolved[d, now, sys_tz].kind = "moment" /\ checkAvailability(d))
                => /\ ca_pc' = "checking"
                   /\ executor' = Append(executor,
                        [tool |-> "ca", op |-> "check",
                         start |-> check_resolved[d, now, sys_tz].utc, attendee |-> ""])
       /\ (ca_pc = "checking" /\ ca_pc' = "idle")
            => /\ exec_done.ca = [status |-> "ok", value |-> 1]
               /\ ca_result' = [available |-> TRUE, message |-> "That time works perfectly."]
       /\ (ca_pc = "checking" /\ ca_pc' = "searching")
            => /\ exec_done.ca /= [status |-> "ok", value |-> 1]
               /\ executor' = Append(executor,
                    [tool |-> "ca", op |-> "next", start |-> ca_args.start_time,
                     attendee |-> ""])
       /\ (executor /= <<>> /\ executor' = Tail(executor) /\ Head(executor).op = "next"
           /\ exec_done'.ca.status = "ok")
            => exec_done'.ca.value =
                    get_next_available_sync(calendar, Head(executor).start, SlotMinutes)
       /\ (ca_pc = "searching" /\ ca_pc' = "idle")
            => /\ ~ca_result'.available
               /\ ca_result'.next_available =
                    (IF exec_done.ca.status = "ok" THEN exec_done.ca.value
                     ELSE ca_args.start_time + HOUR)
               /\ ca_result'.next_available_time =
                    FormatDayTime(Aware(ca_result'.next_available, UTC))]_vars

\* C11 witness: a busy slot was answered with the next free one, half an hour later
C11_Witness ==
    /\ ca_pc = "idle"
    /\ ca_args.dateTime = "Tuesday at 10am"
    /\ "next_available" \in DOMAIN ca_result
    /\ ca_result.next_available = ca_args.start_time + SlotMinutes * MINUTE
    /\ ~ca_result.available

\* ---------------------------------------------------------------- asking twice
\* One call in which the LLM gives the same utterance to checkAvailability again
\* and again, the clock standing still and a calendar that answers: r_text is the
\* utterance, r_check the answer to the first call.
AskInit ==
    /\ now \in CallTimes
    /\ \E job \in Jobs : sys_tz = job.tz /\ CallStart(job.transfer_to, job.calendar)
    /\ token_json = "valid"
    /\ DispatchInit
    /\ sheets_api = "ok"
    /\ r_pc = "idle"
    /\ r_text \in CheckUtterances
    /\ r_check = None
    /\ r_book = None

\* the LLM calls checkAvailability(r_text), the first answer noted before it calls again
Ask ==
    /\ tool_calls = 0 \/ IsSome(r_check)
    /\ checkAvailability(r_text)

\* the first answer is noted
AskNoted ==
    /\ tool_calls = 1
    /\ ca_pc = "idle"
    /\ ca_result /= NoResult
    /\ r_check = None
    /\ r_check' = Some(ca_result)
    /\ r_pc' = "applied"
    /\ UNCHANGED <<now, sys_tz, dvars, sheets_api, auth_vars, r_text, r_book, cvars>>

AskNext ==
    \/ DialAnswered
    \/ Ask
    \/ AskNoted
    \/ ExecutorRun
    \/ checkAvailability_checked
    \/ checkAvailability_next

SpecAsk == AskInit /\ [][AskNext]_vars

ProbeEvents ==
    << [start |-> Jan2026(13, 10, 0, 0), end |-> Jan2026(13, 10, 30, 0),
        attendee |-> "a@example.com", own |-> FALSE],
       [start |-> Jan2026(13, 10, 30, 0), end |-> Jan2026(13, 11, 15, 0),
        attendee |-> "b@example.com", own |-> FALSE],
       [start |-> Jan2026(13, 12, 0, 0), end |-> Jan2026(13, 12, 30, 0),
        attendee |-> "c@example.com", own |-> FALSE],
       [start |-> Jan2026(13, 9, 0, 0), end |-> Jan2026(14, 11, 0, 0),
        attendee |-> "d@example.com", own |-> FALSE] >>

RECURSIVE EventsOf(_, _)
EventsOf(picked, i) ==
    IF i > Len(ProbeEvents) THEN <<>>
    ELSE (IF i \in picked THEN <<ProbeEvents[i]>> ELSE <<>>) \o EventsOf(picked, i + 1)

ProbeCalendars == { EventsOf(picked, 1) : picked \in SUBSET (1..Len(ProbeEvents)) }
ProbeFrom ==
    { Jan2026(13, 10, 0, 0), Jan2026(13, 10, 15, 0), Jan2026(13, 9, 30, 0),
      Jan2026(13, 11, 30, 0) }
ProbeDurations == {30, 45}

ProbeInit ==
    /\ now \in CallInstants
    /\ sys_tz = PST
    /\ CallStart(Some(""), <<>>)
    /\ token_json = "valid"
    /\ DispatchInit
    /\ sheets_api = "ok"
    /\ r_pc = "idle"
    /\ r_text = ""
    /\ r_check = None
    /\ r_book = None

\* the calendar and the preferred time of a request
ProbeGiven ==
    /\ r_pc = "idle"
    /\ r_pc' = "given"
    /\ calendar' \in ProbeCalendars
    /\ \E t \in ProbeFrom : ca_args' = [NoArgs EXCEPT !.start_time = t]
    /\ UNCHANGED <<now, sys_tz, dvars, sheets_api, auth_vars, r_text, r_check, r_book, agent_vars, participant_in_room,
                   room_deleted, session_closed, sheet, task_vars, tool_calls, end_pc,
                   vm_pc, tr_pc, tr_result, sm_pc, sm_args, sm_result, ca_pc, ca_result,
                   executor, exec_done>>

\* get_next_available_time(preferred_time, duration_minutes)
ProbeAsked ==
    /\ r_pc = "given"
    /\ r_pc' = "applied"
    /\ \E d \in ProbeDurations :
        r_book' = Some([duration_minutes |-> d,
                        found |-> next_available_loop(calendar, ca_args.start_time, d,
                                                      ca_args.start_time, 0)])
    /\ UNCHANGED <<now, sys_tz, dvars, sheets_api, auth_vars, r_text, r_check, cvars>>

ProbeNext == ProbeGiven \/ ProbeAsked

SpecProbe == ProbeInit /\ [][ProbeNext]_vars

\* the slot k of a search is free of events
ProbeFree(k) ==
    \A i \in 1..Len(calendar) :
        ~(/\ calendar[i].end > ca_args.start_time + k * 1800
          /\ calendar[i].start < ca_args.start_time + k * 1800
                                    + Get(r_book).duration_minutes * 60)

\* C13: get_next_available_time returns the start of the first of the slots
\* from + k * 30 min, k = 0, 1, 2, ..., that holds no event, having asked the calendar
\* k + 1 times; when the first 48 are all busy it has asked 48 times and returns
\* from + 24 h.
C13_FirstFreeSlot ==
    IsSome(r_book) =>
        IF \E k \in 0..47 : ProbeFree(k)
        THEN \E k \in 0..47 :
                /\ ProbeFree(k)
                /\ \A j \in 0..(k - 1) : ~ProbeFree(j)
                /\ Get(r_book).found = [time |-> ca_args.start_time + k * 1800,
                                        probes |-> k + 1]
        ELSE Get(r_book).found = [time |-> ca_args.start_time + 24 * 3600, probes |-> 48]

\* C13 witness: 48 busy slots, the answer a day later
C13_Witness ==
    /\ IsSome(r_book)
    /\ ca_args.start_time = Jan2026(13, 10, 15, 0)
    /\ Get(r_book).found.probes = 48
    /\ Get(r_book).found.time = Jan2026(14, 10, 15, 0)

\* C14: check_availability answers true exactly when its request went through and no
\* event of the calendar overlaps the slot; a request that fails is answered false,
\* and the tool goes on as it does for a busy slot.
C14_FreeIffNoOverlap ==
    [][ /\ (executor /= <<>> /\ executor' = Tail(executor) /\ Head(executor).op = "check") =>
            /\ exec_done'.ca.status \in {"ok", "fail"}
            /\ check_availability(exec_done'.ca) <=>
                   /\ exec_done'.ca.status = "ok"
                   /\ \A i \in 1..Len(calendar) :
                         ~(/\ calendar[i].end > Head(executor).start
                           /\ calendar[i].start < Head(executor).start + 30 * 60)
        /\ (ca_pc = "checking" /\ ca_pc' = "idle") => exec_done.ca.status = "ok"
        /\ (ca_pc = "checking" /\ exec_done.ca.status = "fail" /\ ca_pc' /= "checking") =>
            ca_pc' = "searching" ]_vars

\* C14 witness: the request failed and the tool looks for the next free slot
C14_Witness ==
    /\ ca_pc = "searching"
    /\ calendar = <<>>
    /\ \E i \in 1..Len(executor) : executor[i].op = "next"

\* ---------------------------------------------------------------- the rules of resolving
\* What the utterance r_text says, and the clocks the two tools read it against:
\* checkAvailability the host's naive datetime.now(), whose reading it tags as UTC,
\* schedule_meeting datetime.now(pst_tz).
SaidClock == time_match(Strip(Lower(r_text)))
SaidValidClock ==
    SaidClock.found /\ ValidHM(To24Hour(SaidClock.hour, SaidClock.am_pm), SaidClock.minute)
SaidSeconds == To24Hour(SaidClock.hour, SaidClock.am_pm) * HOUR + SaidClock.minute * MINUTE
SaidPeriod ==
    \E w \in {"morning", "afternoon", "evening"} : Contains(Lower(r_text), w)
SaidTomorrow == Contains(Lower(r_text), "tomorrow")
SaidWeekday == \E i \in 1..7 : Contains(Lower(r_text), day_names[i])
SaidIso == fromisoformat(Replace(Strip(r_text), "Z", "+00:00")).ok

CheckRef == now + sys_tz
CheckWall == Get(r_check).utc
BookRef == now + PST
BookWall == Get(r_book).utc + PST
Midnight(wall) == (wall \div DAY) * DAY

\* C15: an utterance with a clock time resolves to a moment in both tools, whether
\* or not it also names a period of the day ("10am in the morning").
C15_ClockBeforePeriod ==
    SaidValidClock =>
        /\ IsSome(r_check) => Get(r_check).kind = "moment"
        /\ IsSome(r_book) => Get(r_book).kind = "moment"

\* the moment a clock time with no day means against the reference wall clock ref
SameOrNextDay(ref) ==
    IF Midnight(ref) + SaidSeconds > ref
    THEN Midnight(ref) + SaidSeconds
    ELSE Midnight(ref) + DAY + SaidSeconds

\* C16: a clock time with no day qualifier resolves to that time on the reference's
\* own day when that is strictly after the reference, and on the next day when it is
\* at or before the reference.
C16_TodayOnlyIfAfter ==
    (SaidValidClock /\ ~SaidPeriod /\ ~SaidTomorrow /\ ~SaidWeekday) =>
        /\ IsSome(r_check) => Get(r_check) = Moment(SameOrNextDay(CheckRef))
        /\ IsSome(r_book) => Get(r_book) = Moment(SameOrNextDay(BookRef) - PST)

\* the first weekday, in the order Monday .. Sunday, that the utterance names
SaidDay ==
    (CHOOSE i \in 1..7 :
        /\ Contains(Lower(r_text), day_names[i])
        /\ \A j \in 1..7 : Contains(Lower(r_text), day_names[j]) => i <= j) - 1

\* the moment a clock time on a weekday means against the reference wall clock ref
NextOccurrence(ref) ==
    IF SaidDay /= (ref \div DAY) % 7
    THEN Midnight(ref) + ((SaidDay - (ref \div DAY)) % 7) * DAY + SaidSeconds
    ELSE IF Midnight(ref) + SaidSeconds > ref
    THEN Midnight(ref) + SaidSeconds
    ELSE Midnight(ref) + 7 * DAY + SaidSeconds

\* C17: a clock time on a weekday resolves to the next occurrence of that weekday:
\* 1 to 6 days ahead for another weekday, today when the weekday is today's and the
\* time is still to come, 7 days ahead when the weekday is today's and the time is
\* at or before the reference; of two weekdays named, the first of Monday .. Sunday.
C17_NextOccurrence ==
    (SaidValidClock /\ ~SaidPeriod /\ ~SaidTomorrow /\ SaidWeekday) =>
        /\ IsSome(r_check) => Get(r_check) = Moment(NextOccurrence(CheckRef))
        /\ IsSome(r_book) => Get(r_book) = Moment(NextOccurrence(BookRef) - PST)

\* C18: when an utterance with a clock time names a weekday and says "tomorrow", the
\* weekday decides, in both tools.
C18_WeekdayBeforeTomorrow ==
    (SaidValidClock /\ ~SaidPeriod /\ SaidTomorrow /\ SaidWeekday) =>
        /\ IsSome(r_check) => Get(r_check) = Moment(NextOccurrence(CheckRef))
        /\ IsSome(r_book) => Get(r_book) = Moment(NextOccurrence(BookRef) - PST)

\* C19: neither tool raises on any utterance, an impossible clock time ("13pm",
\* "2:75pm") included, and an utterance that matches no rule resolves to the day
\* after the reference at 14:00.
C19_TotalWithFallback ==
    /\ IsSome(r_check) => Get(r_check).kind /= "raise"
    /\ IsSome(r_book) => Get(r_book).kind /= "raise"
    /\ (~SaidClock.found /\ ~SaidPeriod /\ ~SaidIso) =>
        /\ IsSome(r_check) =>
              Get(r_check) = Moment(Midnight(CheckRef) + DAY + 14 * HOUR)
        /\ IsSome(r_book) =>
              Get(r_book) = Moment(Midnight(BookRef) + DAY + 14 * HOUR - PST)

\* the instant an ISO-8601 literal of the model means: its own offset when it has
\* one, UTC-8 when it has none
IsoMeaning ==
    [u \in {"2026-01-15 14:00:00", "2026-01-15T14:00:00", "2026-01-15T14:00:00Z",
            "2026-01-15T14:00:00-08:00"} |->
        IF u = "2026-01-15T14:00:00Z" THEN Jan2026(15, 14, 0, 0) ELSE Jan2026(15, 22, 0, 0)]

\* C20: an ISO-8601 literal with an offset or "Z" resolves to that instant, one
\* without an offset to its wall-clock reading in UTC-8, in both tools.
C20_IsoLiteral ==
    r_text \in DOMAIN IsoMeaning =>
        /\ IsSome(r_check) => Get(r_check) = Moment(IsoMeaning[r_text])
        /\ IsSome(r_book) => Get(r_book) = Moment(IsoMeaning[r_text])

\* ---------------------------------------------------------------- the email said
\* schedule_meeting's parsing of the email on addresses said in these ways: r_text
\* is the email given, r_check what it is parsed to, r_book that parsed once more.
EmailLocals == {"j o h n", "i t z n t p", "jane", "J Doe", "a.b"}
EmailTails ==
    {" at gmail dot co", " at Gmail dot co", " at gmail dot com", " at gmail dotco",
     "@gmail.com", "@example.com", "@Example.COM", " at example dot co",
     " at example dot org"}
Emails == { l \o t : l \in EmailLocals, t \in EmailTails }

EmailInit ==
    /\ now \in CallInstants
    /\ sys_tz = PST
    /\ CallStart(Some(""), <<>>)
    /\ token_json = "valid"
    /\ DispatchInit
    /\ sheets_api = "ok"
    /\ r_pc = "idle"
    /\ r_text \in Emails
    /\ r_check = None
    /\ r_book = None

\* schedule_meeting parses the email it was given
EmailParsed ==
    /\ r_check = None
    /\ r_check' = Some(parse_email(r_text))
    /\ r_pc' = "applied"
    /\ UNCHANGED <<now, sys_tz, dvars, sheets_api, auth_vars, r_text, r_book, cvars>>

\* schedule_meeting is given the address it parsed before
EmailParsedAgain ==
    /\ IsSome(r_check)
    /\ r_book = None
    /\ r_book' = Some(parse_email(Get(r_check)))
    /\ UNCHANGED <<now, sys_tz, dvars, sheets_api, auth_vars, r_pc, r_text, r_check, cvars>>

EmailNext == EmailParsed \/ EmailParsedAgain

SpecEmail == EmailInit /\ [][EmailNext]_vars

\* C21: a Gmail address spelled out with "dot co" at its end is parsed to the local
\* part without spaces at gmail.com.
C21_GmailDotCo ==
    \A l \in EmailLocals :
        (IsSome(r_check) /\ Lower(r_text) = Lower(l) \o " at gmail dot co")
            => Get(r_check) = Replace(Lower(l), " ", "") \o "@gmail.com"

\* C22: the parsed email holds no space and no upper-case letter, parsing it once
\* more changes nothing, and "jane@example.com" is parsed to itself.
C22_ParsedIsFixed ==
    /\ IsSome(r_check) =>
          (~Contains(Get(r_check), " ") /\ Lower(Get(r_check)) = Get(r_check))
    /\ IsSome(r_book) => Get(r_book) = Get(r_check)
    /\ (IsSome(r_check) /\ r_text = "jane@example.com") => Get(r_check) = r_text

\* C22 witness: an address said with a space and capitals, parsed twice
C22_Witness ==
    /\ r_text = "J Doe at example dot org"
    /\ r_check = Some("jdoe@example.org")
    /\ r_book = Some("jdoe@example.org")

\* ---------------------------------------------------------------- times shown
\* the UTC instant t as a civil time of UTC-8: weekday, hour of 12, minute, AM / PM,
\* and with the date
ShownDayTime(t) ==
    [A |-> ((t - 8 * 3600) \div 86400) % 7,
     I |-> IF (((t - 8 * 3600) % 86400) \div 3600) % 12 = 0 THEN 12
           ELSE (((t - 8 * 3600) % 86400) \div 3600) % 12,
     M |-> ((t - 8 * 3600) % 3600) \div 60,
     p |-> IF ((t - 8 * 3600) % 86400) \div 3600 < 12 THEN "AM" ELSE "PM"]

ShownDateTime(t) ==
    [A |-> ShownDayTime(t).A, date |-> (t - 8 * 3600) \div 86400, I |-> ShownDayTime(t).I,
     M |-> ShownDayTime(t).M, p |-> ShownDayTime(t).p]

\* C23: the next_available_time of checkAvailability, the time of schedule_meeting's
\* confirmation and the appointment_time of a report all show their UTC instant as
\* the civil time of UTC-8.
C23_ShownInUtcMinus8 ==
    /\ "next_available_time" \in DOMAIN ca_result =>
          ca_result.next_available_time = ShownDayTime(ca_result.next_available)
    /\ "time_str" \in DOMAIN sm_result =>
          sm_result.time_str = ShownDateTime(sm_args.start_time)
    /\ \A i \in 1..Len(sheet) :
          IsSome(sheet[i].appointment_time) =>
              Get(sheet[i].appointment_time) = ShownDateTime(Get(appointment_time_scheduled))

\* ---------------------------------------------------------------- credentials
\* The calendar tools of a call whose host holds any token.json, or none, and whose
\* access token may run out during the call.
TokenFiles == {"absent", "valid", "expired", "corrupt"}

AuthInit ==
    /\ now \in CallInstants
    /\ \E job \in Jobs : sys_tz = job.tz /\ CallStart(job.transfer_to, job.calendar)
    /\ token_json \in TokenFiles
    /\ DispatchInit
    /\ sheets_api = "ok"
    /\ r_pc = "idle"
    /\ r_text = ""
    /\ r_check = None
    /\ r_book = None

AuthNext ==
    \/ DialAnswered
    \/ \E email \in CallEmails, dateTime \in CallUtterances : schedule_meeting(email, dateTime)
    \/ schedule_meeting_created
    \/ \E dateTime \in CheckUtterances : checkAvailability(dateTime)
    \/ checkAvailability_checked
    \/ checkAvailability_next
    \/ ExecutorRun
    \/ ExecutorRaise
    \/ ExecutorAuthRaise
    \/ TokenExpires

SpecAuth == AuthInit /\ [][AuthNext]_vars

\* C24: a job of the calendar's executor gets an answer from the calendar, or writes
\* to it, only with _ensure_authenticated done and valid credentials; a job whose
\* authentication fails ends as a failed job with the calendar untouched, and the
\* tool that waits for it goes on: checkAvailability as for a busy slot and then with
\* the preferred time + 1 hour, schedule_meeting to its answer.
C24_AuthenticatedOrFailed ==
    [][ /\ (executor /= <<>> /\ executor' = Tail(executor)) =>
            /\ exec_done'[Head(executor).tool].status \in {"ok", "fail"}
            /\ (exec_done'[Head(executor).tool].status = "ok" \/ calendar' /= calendar)
                  => (authenticated' /\ creds' = "valid")
            /\ creds' /= "valid"
                  => (exec_done'[Head(executor).tool].status = "fail" /\ calendar' = calendar)
        /\ (ca_pc = "checking" /\ exec_done.ca.status = "fail" /\ ca_pc' /= "checking")
              => ca_pc' = "searching"
        /\ (ca_pc = "searching" /\ exec_done.ca.status = "fail" /\ ca_pc' = "idle")
              => (~ca_result'.available
                  /\ ca_result'.next_available = ca_args.start_time + 3600)
        /\ (sm_pc = "creating" /\ exec_done.sm.status = "fail" /\ sm_pc' = "idle")
              => sm_result'.kind /= "raise" ]_vars

\* C24 witness: no token.json and no way to log in; checkAvailability has taken the
\* failed check for a busy slot
C24_Witness ==
    /\ token_json = "absent"
    /\ ~authenticated
    /\ creds = "none"
    /\ ca_pc = "searching"

\* ---------------------------------------------------------------- the sheet fails
\* A call without calendar tools on a host whose update_from_webhook_data writes the
\* row, returns False, or raises.
SinkInit ==
    /\ now \in CallInstants
    /\ \E job \in Jobs : sys_tz = job.tz /\ CallStart(job.transfer_to, job.calendar)
    /\ token_json = "valid"
    /\ DispatchInit
    /\ sheets_api \in SheetsOutcomes
    /\ r_pc = "idle"
    /\ r_text = ""
    /\ r_check = None
    /\ r_book = None

SinkNext ==
    \/ DialAnswered
    \/ DialFailed
    \/ GreetingDone
    \/ GreetingFailed
    \/ MonitorAwaited
    \/ MonitorTick
    \/ MonitorCancelled
    \/ ParticipantDisconnected
    \/ DisconnectTask
    \/ SessionClosed
    \/ end_call
    \/ end_call_hangup
    \/ detected_answering_machine
    \/ transfer_call
    \/ transfer_call_announced
    \/ transfer_call_done
    \/ transfer_call_error
    \/ transfer_call_hangup
    \/ delete_room

SpecSink == SinkInit /\ [][SinkNext]_vars

\* C25: a report that update_from_webhook_data does not store (it returns False or
\* raises) still ends send_call_results_to_sheets normally: the tool that hangs up
\* goes on to delete_room, and leaves it only with the room deleted.
C25_HangupDespiteSink ==
    [][ /\ (Len(sheet') > Len(sheet) /\ end_pc' /= end_pc) => end_pc' = "deleting"
        /\ (Len(sheet') > Len(sheet) /\ vm_pc' /= vm_pc) => vm_pc' = "deleting"
        /\ (Len(sheet') > Len(sheet) /\ tr_pc' /= tr_pc) => tr_pc' = "deleting"
        /\ (end_pc = "deleting" /\ end_pc' /= "deleting") => room_deleted'
        /\ (vm_pc = "deleting" /\ vm_pc' /= "deleting") => room_deleted'
        /\ (tr_pc = "deleting" /\ tr_pc' /= "deleting") => room_deleted' ]_vars

\* C25 witness: end_call's report was raised on, and the room is deleted
C25_Witness ==
    /\ room_deleted
    /\ end_pc = "idle"
    /\ tool_calls = 1
    /\ Len(sheet) = 1
    /\ sheet[1].success = "raised"
    /\ sheet[1].call_status = "completed"

\* ---------------------------------------------------------------- the end of a booked call
\* the event loop runs every task that is ready: the monitor, the task of the
\* disconnect event, and a hangup that a tool has begun. What the model and the
\* callee decide to do (a tool call, leaving the room) is not scheduled by anybody.
FairHangupSpec ==
    /\ Spec
    /\ WF_vars(MonitorTick) /\ WF_vars(MonitorCancelled) /\ WF_vars(DisconnectTask)
    /\ WF_vars(end_call_hangup) /\ WF_vars(transfer_call_hangup) /\ WF_vars(delete_room)

\* C30: after a successful schedule_meeting the call is ended without anybody
\* asking for it: eventually the room is deleted (the agent hangs up), unless the
\* callee has left by then.
C30_AutoHangup == appointment_scheduled ~> (room_deleted \/ ~participant_in_room)

\* ---------------------------------------------------------------- the dispatchers
\* configuration read from the environment
MAX_RETRIES == 1
MAX_CONCURRENT_CALLS == 1
RETRY_NO_ANSWER == TRUE
WAIT_FOR_CALL_COMPLETION == TRUE
MONITOR_CALLS == TRUE

\* wait_for_call_completion: the sleeps of CALL_COMPLETION_CHECK_INTERVAL that fit
\* into MAX_WAIT_TIME
MaxPolls == 2

\* monitor_call_status: max_checks
max_checks == 2

\* int(row[retry_count_idx].strip() or "0")
stored_retry_count(cell) == int_of_str(IF Strip(cell) = "" THEN "0" ELSE Strip(cell))

\* a read_pending_rows that calls every "No Answer" row again, whatever its count
is_no_answer_retry_uncounted(row) ==
    RETRY_NO_ANSWER /\ Lower(Strip(row.status)) = "no answer"

\* read_pending_rows: a row that ended "No Answer" is called again while its stored
\* count is below MAX_RETRIES, and whenever that count cannot be read
is_no_answer_retry(row) ==
    /\ RETRY_NO_ANSWER
    /\ Lower(Strip(row.status)) = "no answer"
    /\ ~stored_retry_count(row.retry).ok \/ stored_retry_count(row.retry).value < MAX_RETRIES

is_pending(row) == Lower(Strip(row.status)) = "pending"

\* read_pending_rows: the row_data dict of row n
row_data_of(n, row) ==
    [row_number |-> n,
     phone_number |-> Strip(row.phone),
     retry_count |->
        (IF stored_retry_count(row.retry).ok THEN stored_retry_count(row.retry).value ELSE 0)
        + (IF is_no_answer_retry(row) THEN 1 ELSE 0),
     is_retry |-> is_no_answer_retry(row)]

RECURSIVE read_pending_rows_from(_, _)
read_pending_rows_from(sheet_rows, n) ==
    IF n > NRows + 1 THEN <<>>
    ELSE (IF Strip(sheet_rows[n].phone) /= ""
             /\ (is_pending(sheet_rows[n]) \/ is_no_answer_retry(sheet_rows[n]))
          THEN <<row_data_of(n, sheet_rows[n])>>
          ELSE <<>>)
         \o read_pending_rows_from(sheet_rows, n + 1)

\* read_pending_rows(service): the rows to call, in the order of the sheet
read_pending_rows(sheet_rows) == read_pending_rows_from(sheet_rows, 2)

\* normalize_phone_number
normalize_phone_number(phone) ==
    LET p == Replace(Replace(Replace(Replace(phone, " ", ""), "-", ""), "(", ""), ")", "")
    IN  IF p /= "" /\ CharAt(p, 1) = "+" THEN p ELSE "+" \o p

\* a dispatcher that leaves the row number out of the metadata
dispatch_metadata_without_row(rd) ==
    [phone_number |-> normalize_phone_number(rd.phone_number), row_id |-> JsonNull]

\* dispatch_to_livekit_cli, dispatch_to_livekit_http: the metadata of the job
dispatch_metadata(rd) ==
    [phone_number |-> normalize_phone_number(rd.phone_number),
     row_id |-> JsonStr(str(rd.row_number))]

\* the job that "lk dispatch create" makes, with the row it was made for
Job(rd) == [metadata |-> dispatch_metadata(rd), row |-> Some(rd.row_number)]

\* the statuses that end wait_for_call_completion
WaitTerminal == {"completed", "voicemail", "failed", "no answer", "hung up"}

\* the statuses that end monitor_call_status
MonitorTerminal == {"completed", "voicemail", "failed", "no answer"}

\* check_call_status: the Status cell of the row, stripped; lowered by its callers
status_lower(n) == Lower(Strip(rows[n].status))

\* ---- update_call_results.py
\* update_call_results: the row the result goes to. row_number comes from int(row_id)
\* when row_id is truthy and int() accepts it; "if not row_number" then searches the
\* column "Phone Number" for the first cell equal to phone_number
PhoneMatches(sheet_rows, phone_number) ==
    {n \in RowNumbers : Strip(sheet_rows[n].phone) = phone_number}

find_row(call_data, sheet_rows) ==
    LET by_id == IF Truthy(call_data.row_id) /\ int(call_data.row_id).ok
                 THEN int(call_data.row_id).value
                 ELSE 0
        found == PhoneMatches(sheet_rows, call_data.phone_number)
    IN  IF by_id /= 0 THEN [row |-> Some(by_id), by_phone |-> FALSE]
        ELSE IF call_data.phone_number /= "" /\ found /= {}
        THEN [row |-> Some(CHOOSE n \in found : \A k \in found : n <= k), by_phone |-> TRUE]
        ELSE [row |-> None, by_phone |-> TRUE]

\* a status cell written without the status_map
status_cell_capitalized(call_status) == Capitalize(call_status)

\* status_map.get(call_status.lower(), call_status.capitalize())
status_cell(call_status) ==
    IF Lower(call_status) = "completed" THEN "Completed"
    ELSE IF Lower(call_status) = "voicemail" THEN "Voicemail"
    ELSE IF Lower(call_status) = "failed" THEN "Failed"
    ELSE IF Lower(call_status) = "no_answer" THEN "No Answer"
    ELSE Capitalize(call_status)

\* update_call_results: the sheet after the batch update
update_call_results(call_data, sheet_rows) ==
    LET target == find_row(call_data, sheet_rows).row
    IN  IF IsSome(target) /\ Get(target) \in RowNumbers
        THEN [sheet_rows EXCEPT ![Get(target)].status = status_cell(call_data.call_status)]
        ELSE sheet_rows

\* ---- agent.py
\* send_call_results_to_sheets: the fields of the data dict that find the row
report_data(dial_info, call_status) ==
    [phone_number |-> dial_info.phone_number,
     call_status |-> call_status,
     row_id |-> dial_info.row_id]

\* the statuses the agent reports
ReportedStatuses == {"completed", "voicemail", "no_answer"}

\* the job c ends: the agent hands its report to update_from_webhook_data
AgentReports(c, call_status) ==
    /\ c \in calls
    /\ rows' = update_call_results(report_data(c.metadata, call_status), rows)
    /\ calls' = calls \ {c}
    /\ UNCHANGED <<now, sys_tz, sheets_api, auth_vars, cvars, rvars, d_pc, pending_rows, idx,
                   polls, tasks, active_calls, checks, dispatches>>

\* ---- dispatch_calls.py
\* main: read_pending_rows, then process_calls unless nothing is pending
DispatcherStarts ==
    /\ d_pc = "idle"
    /\ \A n \in RowNumbers : dispatches[n] <= 1 + MAX_RETRIES
    /\ read_pending_rows(rows) /= <<>>
    /\ pending_rows' = read_pending_rows(rows)
    /\ d_pc' = "process_calls"
    /\ idx' = 1
    /\ polls' = 0
    /\ UNCHANGED <<now, sys_tz, sheets_api, auth_vars, cvars, rvars, rows, tasks, active_calls,
                   checks, calls, dispatches>>

\* process_calls: after the call idx, on to the next row or to the end of the run
process_calls_goes_on(waits) ==
    IF waits
    THEN d_pc' = "wait_for_call_completion" /\ polls' = 0 /\ UNCHANGED <<idx, pending_rows>>
    ELSE IF idx < Len(pending_rows)
    THEN d_pc' = "process_calls" /\ idx' = idx + 1 /\ polls' = 0 /\ UNCHANGED pending_rows
    ELSE d_pc' = "idle" /\ idx' = 0 /\ polls' = 0 /\ pending_rows' = <<>>

\* process_calls, one turn of its loop up to the wait: the row is marked Dispatched,
\* a retry writes its count, the job is created (job_id) or not (None -> Failed)
process_calls(job_created) ==
    /\ d_pc = "process_calls"
    /\ rows' = [rows EXCEPT
            ![pending_rows[idx].row_number] =
                [@ EXCEPT
                    !.status = IF job_created THEN "Dispatched" ELSE "Failed",
                    !.retry = IF pending_rows[idx].is_retry /\ pending_rows[idx].retry_count > 0
                              THEN str(pending_rows[idx].retry_count)
                              ELSE @]]
    /\ calls' = IF job_created THEN calls \cup {Job(pending_rows[idx])} ELSE calls
    /\ dispatches' = IF job_created
                     THEN [dispatches EXCEPT ![pending_rows[idx].row_number] = @ + 1]
                     ELSE dispatches
    /\ process_calls_goes_on(job_created /\ WAIT_FOR_CALL_COMPLETION /\ idx < Len(pending_rows))
    /\ UNCHANGED <<now, sys_tz, sheets_api, auth_vars, cvars, rvars, tasks, active_calls, checks>>

\* wait_for_call_completion, one turn of its loop: False once MAX_WAIT_TIME has
\* passed, True on a terminal status, else another sleep
wait_for_call_completion ==
    /\ d_pc = "wait_for_call_completion"
    /\ IF polls > MaxPolls \/ status_lower(pending_rows[idx].row_number) \in WaitTerminal
       THEN process_calls_goes_on(FALSE)
       ELSE polls' = polls + 1 /\ UNCHANGED <<d_pc, idx, pending_rows>>
    /\ UNCHANGED <<now, sys_tz, sheets_api, auth_vars, cvars, rvars, rows, tasks, active_calls,
                   checks, calls, dispatches>>

\* ---- dispatch_calls_parallel.py
Holding == {i \in 1..Len(tasks) : tasks[i] = "holding"}
Queued == {i \in 1..Len(tasks) : tasks[i] = "queued"}

\* main_async: a new process (active_calls = {}), read_pending_rows, then
\* process_calls_parallel creates one dispatch_with_limit task per row
ParallelDispatcherStarts ==
    /\ d_pc = "idle"
    /\ \A n \in RowNumbers : dispatches[n] <= 1 + MAX_RETRIES
    /\ read_pending_rows(rows) /= <<>>
    /\ pending_rows' = read_pending_rows(rows)
    /\ d_pc' = "process_calls_parallel"
    /\ tasks' = [i \in 1..Len(read_pending_rows(rows)) |-> "queued"]
    /\ active_calls' = {}
    /\ checks' = [n \in RowNumbers |-> 0]
    /\ UNCHANGED <<now, sys_tz, sheets_api, auth_vars, cvars, rvars, rows, idx, polls, calls,
                   dispatches>>

\* dispatch_with_limit: "async with semaphore" lets the task in, in the order of the
\* tasks, while fewer than MAX_CONCURRENT_CALLS hold the semaphore
dispatch_with_limit_enters ==
    /\ d_pc = "process_calls_parallel"
    /\ Queued /= {}
    /\ Cardinality(Holding) < MAX_CONCURRENT_CALLS
    /\ tasks' = [tasks EXCEPT ![CHOOSE i \in Queued : \A j \in Queued : i <= j] = "holding"]
    /\ UNCHANGED <<now, sys_tz, sheets_api, auth_vars, cvars, rvars, rows, d_pc, pending_rows,
                   idx, polls, active_calls, checks, calls, dispatches>>

\* dispatch_with_limit after its sleep: dispatch_call_async marks the row Dispatched
\* and creates the job; on success the row enters active_calls and its monitor task
\* is created, not awaited; the task returns and the semaphore is released
dispatch_call_async(i, job_created) ==
    /\ d_pc = "process_calls_parallel"
    /\ i \in Holding
    /\ rows' = [rows EXCEPT ![pending_rows[i].row_number].status =
                    IF job_created THEN "Dispatched" ELSE "Failed"]
    /\ calls' = IF job_created THEN calls \cup {Job(pending_rows[i])} ELSE calls
    /\ dispatches' = IF job_created
                     THEN [dispatches EXCEPT ![pending_rows[i].row_number] = @ + 1]
                     ELSE dispatches
    /\ active_calls' = IF job_created
                       THEN active_calls \cup {pending_rows[i].row_number}
                       ELSE active_calls
    /\ checks' = [checks EXCEPT ![pending_rows[i].row_number] = 0]
    /\ tasks' = [tasks EXCEPT ![i] = "done"]
    /\ UNCHANGED <<now, sys_tz, sheets_api, auth_vars, cvars, rvars, d_pc, pending_rows, idx,
                   polls>>

\* monitor_call_status, one turn of its loop: after the sleep the status is read; a
\* terminal status, or the last of max_checks, takes the row out of active_calls
monitor_call_status(n) ==
    /\ d_pc = "process_calls_parallel"
    /\ MONITOR_CALLS
    /\ n \in active_calls
    /\ checks' = [checks EXCEPT ![n] = @ + 1]
    /\ active_calls' = IF status_lower(n) \in MonitorTerminal \/ checks[n] + 1 >= max_checks
                       THEN active_calls \ {n}
                       ELSE active_calls
    /\ UNCHANGED <<now, sys_tz, sheets_api, auth_vars, cvars, rvars, rows, d_pc, pending_rows,
                   idx, polls, tasks, calls, dispatches>>

\* process_calls_parallel: gather returns once every task has returned; main_async
\* returns and the process ends with whatever monitors are left
process_calls_parallel_returns ==
    /\ d_pc = "process_calls_parallel"
    /\ \A i \in 1..Len(tasks) : tasks[i] = "done"
    /\ d_pc' = "idle"
    /\ tasks' = <<>>
    /\ pending_rows' = <<>>
    /\ active_calls' = {}
    /\ checks' = [n \in RowNumbers |-> 0]
    /\ UNCHANGED <<now, sys_tz, sheets_api, auth_vars, cvars, rvars, rows, idx, polls, calls,
                   dispatches>>

DispatchNext ==
    \/ DispatcherStarts
    \/ \E job_created \in BOOLEAN : process_calls(job_created)
    \/ wait_for_call_completion
    \/ ParallelDispatcherStarts
    \/ dispatch_with_limit_enters
    \/ \E i \in 1..NRows, job_created \in BOOLEAN : dispatch_call_async(i, job_created)
    \/ \E n \in RowNumbers : monitor_call_status(n)
    \/ process_calls_parallel_returns
    \/ \E c \in calls, call_status \in ReportedStatuses : AgentReports(c, call_status)

SpecDispatch == Init /\ [][DispatchNext]_vars

\* ---------------------------------------------------------------- the row of a report
\* what a job's metadata may carry as row_id when somebody else than the two
\* dispatchers creates the job (lk dispatch create --metadata ...)
RowIds == {JsonNull, JsonStr(""), JsonStr("0"), JsonInt(0), JsonInt(3), JsonStr("3.0")}

ManualPhones == {"+1555", ""}

\* a job created by hand while no dispatcher runs and no call is in progress
ManualDispatch(phone_number, row_id) ==
    /\ d_pc = "idle"
    /\ calls = {}
    /\ calls' = calls \cup {[metadata |-> [phone_number |-> phone_number, row_id |-> row_id],
                             row |-> None]}
    /\ UNCHANGED <<now, sys_tz, sheets_api, auth_vars, cvars, rvars, rows, d_pc, pending_rows,
                   idx, polls, tasks, active_calls, checks, dispatches>>

RowIdNext ==
    \/ DispatcherStarts
    \/ \E job_created \in BOOLEAN : process_calls(job_created)
    \/ wait_for_call_completion
    \/ \E phone_number \in ManualPhones, row_id \in RowIds : ManualDispatch(phone_number, row_id)
    \/ \E c \in calls, call_status \in ReportedStatuses : AgentReports(c, call_status)

SpecRowId == Init /\ [][RowIdNext]_vars

ResultCells == {"Completed", "Voicemail", "No Answer"}

\* the step changes no row but n, and of row n the status only, to a result
WritesOnlyRow(n) ==
    /\ \A m \in RowNumbers \ {n} : rows'[m] = rows[m]
    /\ n \in RowNumbers =>
        /\ rows'[n].status \in ResultCells
        /\ rows'[n] = [rows[n] EXCEPT !.status = rows'[n].status]

\* the first row whose phone cell is the phone number, 0 when there is none
FirstPhoneMatch(phone_number) ==
    IF phone_number /= "" /\ \E n \in RowNumbers : Strip(rows[n].phone) = phone_number
    THEN CHOOSE n \in RowNumbers :
            /\ Strip(rows[n].phone) = phone_number
            /\ \A m \in RowNumbers : Strip(rows[m].phone) = phone_number => n <= m
    ELSE 0

\* row_id names a row: it is there, int() accepts it, and it is not zero
NamesRow(row_id) == Truthy(row_id) /\ int(row_id).ok /\ int(row_id).value /= 0

\* C26: the row number the dispatcher puts into the metadata is the row_id of the
\* agent's report, and the report is written to exactly that row. The match by phone
\* number is used exactly when row_id names no row: it is absent, empty, not an
\* integer, or zero.
C26_RowIdEndToEnd ==
    [][\A c \in calls \ calls' :
        /\ IsSome(c.row) =>
            /\ c.metadata.row_id = JsonStr(str(Get(c.row)))
            /\ WritesOnlyRow(Get(c.row))
            /\ rows'[Get(c.row)].status \in ResultCells
        /\ NamesRow(c.metadata.row_id) => WritesOnlyRow(int(c.metadata.row_id).value)
        /\ ~NamesRow(c.metadata.row_id) =>
            WritesOnlyRow(FirstPhoneMatch(c.metadata.phone_number))]_vars

\* C26 witness: the report of the call of row 3 has arrived in row 3 while the call of
\* row 2, dispatched before it, is still in progress
C26_Witness ==
    /\ rows[3].status = "Completed"
    /\ rows[2].status = "Dispatched"
    /\ \E c \in calls : c.row = Some(2) /\ c.metadata.row_id = JsonStr("2")
    /\ dispatches[3] = 1

\* C26 as stated: a report whose row_id is an integer is written to that row and to
\* no other (the phone number is used only when row_id is absent or not an integer)
C26_FallbackOnlyWithoutInteger ==
    [][\A c \in calls \ calls' :
        (c.metadata.row_id.type /= "null" /\ int(c.metadata.row_id).ok)
            => WritesOnlyRow(int(c.metadata.row_id).value)]_vars

\* ---------------------------------------------------------------- retries
\* C27: over any number of runs of the two dispatchers no row is dispatched more
\* than 1 + MAX_RETRIES times: once as Pending, and once for each stored retry
\* count below MAX_RETRIES.
C27_BoundedRetries == \A n \in RowNumbers : dispatches[n] <= 1 + MAX_RETRIES

\* ---------------------------------------------------------------- one call at a time
\* C28: with WAIT_FOR_CALL_COMPLETION set, when process_calls turns to the call idx
\* the row of the call before it has reached a terminal status, so no call of this
\* run is still in progress.
C28_OneCallAtATime ==
    (WAIT_FOR_CALL_COMPLETION /\ d_pc = "process_calls" /\ idx > 1)
        => /\ status_lower(pending_rows[idx - 1].row_number) \in WaitTerminal
           /\ \A c \in calls : c.row /= Some(pending_rows[idx - 1].row_number)

\* ---------------------------------------------------------------- concurrent calls
\* C29: under process_calls_parallel at most MAX_CONCURRENT_CALLS calls are active
\* at any moment, as active_calls tracks them.
C29_ConcurrencyLimit == Cardinality(active_calls) <= MAX_CONCURRENT_CALLS

\* ---------------------------------------------------------------- no transfer target
\* C31: when the job metadata configures no transfer target (the key is absent, or
\* its value is empty), transfer_call does nothing but return "cannot transfer
\* call": it does not raise, attempts no transfer and does not hang up.
C31_NoTargetNoRaise ==
    (~IsSome(transfer_to) \/ transfer_to = Some(""))
        => /\ tr_result.kind \in {"none", "cannot transfer call"}
           /\ tr_pc = "idle"

\* ---------------------------------------------------------------- booking again
\* a call in which the callee may book twice, with another slot and another email
RescheduleNext ==
    \/ DialAnswered
    \/ GreetingDone
    \/ MonitorAwaited
    \/ MonitorTick
    \/ ParticipantDisconnected
    \/ DisconnectTask
    \/ SessionClosed
    \/ end_call
    \/ end_call_hangup
    \/ delete_room
    \/ \E email \in BookEmails, dateTime \in BookUtterances : schedule_meeting(email, dateTime)
    \/ schedule_meeting_created
    \/ ExecutorRun
    \/ ExecutorRaise

SpecReschedule == Init /\ [][RescheduleNext]_vars

\* the appointment fields as send_call_results_to_sheets renders them
ReportedAppointment(r) ==
    /\ r.appointment_scheduled = appointment_scheduled
    /\ r.appointment_email = appointment_email
    /\ r.appointment_time =
        IF IsSome(appointment_time_scheduled)
        THEN Some(FormatDateTime(AsTimezone(Aware(Get(appointment_time_scheduled), UTC), PST)))
        ELSE None

C33_NeverInPast ==
    ~SaidIso =>
        /\ (IsSome(r_check) /\ Get(r_check).kind = "moment") => Get(r_check).utc >= now
        /\ (IsSome(r_book) /\ Get(r_book).kind = "moment") => Get(r_book).utc >= now


\* ---------------------------------------------------------------- what a failed search answers
\* C34: the instant get_next_available_time hands to checkAvailability is the start of
\* a slot that the search asked the calendar about and found empty, or the horizon
\* from + 24 h; a request that fails during the search never makes the tool answer
\* with a slot that was not asked about.
C34_ProbedFreeOrHorizon ==
    [][ /\ (executor /= <<>> /\ executor' = Tail(executor) /\ Head(executor).op = "next"
            /\ exec_done'.ca.status = "ok") =>
              \/ exec_done'.ca.value = Head(executor).start + 24 * HOUR
              \/ \E k \in 0..(max_attempts - 1) :
                    /\ exec_done'.ca.value = Head(executor).start + k * 30 * MINUTE
                    /\ EventsIn(calendar, exec_done'.ca.value,
                                exec_done'.ca.value + SlotMinutes * MINUTE) = {}
        /\ (ca_pc = "searching" /\ ca_pc' = "idle") =>
              \/ ca_result'.next_available = ca_args.start_time + 24 * HOUR
              \/ /\ exec_done.ca.status = "ok"
                 /\ ca_result'.next_available = exec_done.ca.value ]_vars

\* C35: when checkAvailability answers available = false, the instant it offers as
\* next_available_time is strictly after the start of the slot that was asked for,
\* also when the slot was reported busy because the availability request failed.
C35_OfferedAfterRequested ==
    [][ (ca_pc = "searching" /\ ca_pc' = "idle") =>
            /\ ~ca_result'.available
            /\ ca_result'.next_available > ca_args.start_time ]_vars

\* ---------------------------------------------------------------- the life of a dispatched row
\* the job c dials and create_sip_participant raises TwirpError (the call is refused,
\* busy or never answered): the entrypoint logs the error and calls ctx.shutdown();
\* nothing is reported
AgentDialFails(c) ==
    /\ c \in calls
    /\ calls' = calls \ {c}
    /\ UNCHANGED <<now, sys_tz, sheets_api, auth_vars, cvars, rvars, rows, d_pc, pending_rows,
                   idx, polls, tasks, active_calls, checks, dispatches>>

\* every job that was created comes to its end
JobEnds ==
    \E c \in calls :
        \/ \E call_status \in ReportedStatuses : AgentReports(c, call_status)
        \/ AgentDialFails(c)

\* what a dispatcher that was started does next, and what the event loop of the
\* parallel one runs
DispatcherRuns ==
    \/ \E job_created \in BOOLEAN : process_calls(job_created)
    \/ wait_for_call_completion
    \/ dispatch_with_limit_enters
    \/ \E i \in 1..NRows, job_created \in BOOLEAN : dispatch_call_async(i, job_created)
    \/ \E n \in RowNumbers : monitor_call_status(n)
    \/ process_calls_parallel_returns

RowLifeNext ==
    \/ DispatcherStarts
    \/ \E job_created \in BOOLEAN : process_calls(job_created)
    \/ wait_for_call_completion
    \/ ParallelDispatcherStarts
    \/ dispatch_with_limit_enters
    \/ \E i \in 1..NRows, job_created \in BOOLEAN : dispatch_call_async(i, job_created)
    \/ \E n \in RowNumbers : monitor_call_status(n)
    \/ process_calls_parallel_returns
    \/ \E c \in calls, call_status \in ReportedStatuses : AgentReports(c, call_status)
    \/ \E c \in calls : AgentDialFails(c)

\* a dispatcher that was started runs to its end, and the worker runs every job it
\* was given to its end; nobody is bound to start a dispatcher
FairRowLifeSpec ==
    /\ Init /\ [][RowLifeNext]_vars
    /\ WF_vars(DispatcherRuns)
    /\ WF_vars(JobEnds)

TerminalStatuses == {"Completed", "Voicemail", "Failed", "No Answer"}

\* C36: every row a dispatcher has set to Dispatched gets a terminal status in the
\* end (Completed, Voicemail, Failed or No Answer), written by the dispatcher when
\* the dispatch fails or by the agent's report, also when the job was created and the
\* dial fails or is never answered.
C36_DispatchedEnds ==
    \A n \in RowNumbers :
        (rows[n].status = "Dispatched") ~> (rows[n].status \in TerminalStatuses)

\* ---------------------------------------------------------------- the order of hanging up
\* a termination the agent has begun: end_call waits for the playout, the answering
\* machine tool has sent its report, transfer_call has seen the transfer fail
TerminationBegun == end_pc = "playout" \/ vm_pc = "deleting" \/ tr_pc = "error_reply"

\* the order inside one hangup: the step of hangup that reports sets call_end_time
\* and hands the report over and leaves the room alone; the room is deleted in a
\* later step, with the end time set and a report handed over
ReportBeforeDelete ==
    /\ ((end_pc = "playout" /\ end_pc' = "deleting") \/
        (tr_pc = "error_reply" /\ tr_pc' = "deleting")) =>
            /\ IsSome(call_end_time')
            /\ (~IsSome(call_end_time) =>
                    /\ call_end_time' = Some(now)
                    /\ Len(sheet') = Len(sheet) + 1)
            /\ room_deleted' = room_deleted
    /\ (room_deleted' /\ ~room_deleted) =>
            /\ IsSome(call_end_time)
            /\ Len(sheet) >= 1

ReportedOnEnd ==
    /\ Len(sheet') = Len(sheet) + 1
    /\ end_pc' = end_pc /\ vm_pc' = vm_pc /\ tr_pc' = tr_pc

\* C38: when the call ends because the callee left or the session closed, with no
\* finalization by the agent before, the status reported is "completed" exactly when
\* appointment_scheduled holds at that moment and "no_answer" otherwise; "no_answer"
\* is reported only for a call without a scheduled appointment.
C38_StatusOnDisconnect ==
    [][ /\ ReportedOnEnd =>
              /\ ~IsSome(call_end_time)
              /\ sheet'[Len(sheet')].call_status =
                    IF appointment_scheduled THEN "completed" ELSE "no_answer"
        /\ (Len(sheet') = Len(sheet) + 1 /\ sheet'[Len(sheet')].call_status = "no_answer") =>
              /\ ~appointment_scheduled
              /\ ~sheet'[Len(sheet')].appointment_scheduled ]_vars

\* C38 witness: the callee left after booking, and the disconnect task reported
\* "completed"
C38_Witness ==
    /\ Len(sheet) = 1
    /\ sheet[1].call_status = "completed"
    /\ sheet[1].appointment_scheduled
    /\ disc_pc = "done"
    /\ monitor_pc = "sleeping"
    /\ end_pc = "idle" /\ vm_pc = "idle" /\ tr_pc = "idle"
    /\ ~room_deleted

\* ---------------------------------------------------------------- one vocabulary of statuses
\* the Status cells the agent's reports are written as
ReportedCells == {status_cell(call_status) : call_status \in ReportedStatuses}

\* C39: every status the agent reports (completed, voicemail, no_answer) is written
\* by update_call_results as a Status that wait_for_call_completion and
\* monitor_call_status both take as the end of the call: the poll that reads it ends
\* the wait, and the row leaves active_calls, without running into the timeout.
C39_OneVocabulary ==
    [][ /\ \A n \in RowNumbers :
              (calls' /= calls /\ calls' \subseteq calls /\ rows'[n] /= rows[n]) =>
                  /\ rows'[n].status \in ReportedCells
                  /\ Lower(Strip(rows'[n].status)) \in WaitTerminal \cap MonitorTerminal
        /\ (/\ d_pc = "wait_for_call_completion"
            /\ rows[pending_rows[idx].row_number].status \in ReportedCells
            /\ (polls' /= polls \/ d_pc' /= d_pc)) =>
                  d_pc' /= "wait_for_call_completion"
        /\ \A n \in RowNumbers :
              (/\ n \in active_calls
               /\ rows[n].status \in ReportedCells
               /\ checks'[n] = checks[n] + 1) =>
                  n \notin active_calls' ]_vars

\* C39 witness: the first call was reported as no_answer while the dispatcher waited
\* for it, and the dispatcher has gone on to the second row before the timeout
C39_Witness ==
    /\ d_pc = "process_calls"
    /\ idx = 2
    /\ polls = 0
    /\ rows[pending_rows[1].row_number].status = "No Answer"
    /\ calls = {}

\* ---------------------------------------------------------------- the rows a run selects
\* sheets as a dispatcher may find them: rows without a phone number, rows of earlier
\* runs, Retry Count cells that are empty, used up or not a number
SelectPhones == {"+1555", " "}
SelectStatuses == {"Pending", "No Answer", "Completed", "Failed"}
SelectRetries == {"", "1", "x"}

SelectInit ==
    /\ now \in CallInstants
    /\ sys_tz = UTC
    /\ CallStart(None, <<>>)
    /\ token_json = "valid"
    /\ rows \in [RowNumbers ->
                    [phone : SelectPhones, status : SelectStatuses, retry : SelectRetries]]
    /\ d_pc = "idle"
    /\ pending_rows = <<>>
    /\ idx = 0
    /\ polls = 0
    /\ tasks = <<>>
    /\ active_calls = {}
    /\ checks = [n \in RowNumbers |-> 0]
    /\ calls = {}
    /\ dispatches = [n \in RowNumbers |-> 0]
    /\ sheets_api = "ok"
    /\ r_pc = "idle"
    /\ r_text = ""
    /\ r_check = None
    /\ r_book = None

SpecSelect == SelectInit /\ [][DispatchNext]_vars

\* the Retry Count of a row as a run reads it: 0 when the cell is empty or no number
RetriesUsed(row) ==
    IF stored_retry_count(row.retry).ok THEN stored_retry_count(row.retry).value ELSE 0

\* what the sheet must say of a row for a run to call it
MayBeCalled(row) ==
    /\ Strip(row.phone) /= ""
    /\ \/ Lower(Strip(row.status)) = "pending"
       \/ /\ Lower(Strip(row.status)) = "no answer"
          /\ RETRY_NO_ANSWER
          /\ RetriesUsed(row) < MAX_RETRIES

\* the statuses of a row that is being called or was called for the last time
ClosedStatuses == {"dispatched", "completed", "voicemail", "failed"}

\* C40: a run selects a row only when the row has a phone number and its status is
\* Pending, or No Answer with retries enabled and remaining; a row whose status is
\* Dispatched, Completed, Voicemail or Failed is not dispatched again by any later
\* run.
C40_OnlyPendingOrRetry ==
    [][ /\ (d_pc = "idle" /\ d_pc' /= "idle") =>
              \A i \in 1..Len(pending_rows') : MayBeCalled(rows[pending_rows'[i].row_number])
        /\ (d_pc = "idle" /\ d_pc' /= "idle") =>
              \A n \in RowNumbers :
                  Lower(Strip(rows[n].status)) \in ClosedStatuses =>
                      \A i \in 1..Len(pending_rows') : pending_rows'[i].row_number /= n
        /\ \A n \in RowNumbers :
              (dispatches'[n] > dispatches[n] \/ (rows'[n] /= rows[n] /\ calls \subseteq calls')) =>
                  Lower(Strip(rows[n].status)) \notin ClosedStatuses ]_vars

\* C40 witness: a run has selected the one row it may call again and left out a
\* Pending row without a phone number
C40_Witness ==
    /\ d_pc = "process_calls"
    /\ Len(pending_rows) = 1
    /\ pending_rows[1].is_retry
    /\ idx = 1
    /\ \E n \in RowNumbers : Strip(rows[n].phone) = "" /\ rows[n].status = "Pending"

============================================================================
